---- MODULE Spec2Model ----
(***************************************************************************)
(* A model of scbake's execution core: the filesystem transaction manager  *)
(* (Track / Commit / Rollback), the execution engine (Execute), the        *)
(* orchestrator (RunApply / executeAndFinalize) and the template task's    *)
(* path check, over a small POSIX-like filesystem.                         *)
(*                                                                         *)
(* Paths are sequences of components and a component is a sequence of      *)
(* one-character strings, so that Go's string operations on paths          *)
(* (strings.HasPrefix, filepath.Rel, filepath.Clean, filepath.Join) are    *)
(* modelled character by character.                                        *)
(***************************************************************************)
EXTENDS Integers, Sequences, FiniteSets, TLC

VARIABLES
    fs,         \* the filesystem: path -> node (outside the .scbake scaffold)
    priv,       \* whether the process runs as the superuser (no permission checks)
    tempDir,    \* Manager.tempDir: "" or the name of this run's tx-<nanos> directory
    backups,    \* Manager.backups: original path -> [tempPath, mode]
    created,    \* Manager.created: sequence of paths, in insertion order
    tmpFiles,   \* the files inside this run's tx-<nanos> directory: name -> node
    scaffold,   \* <root>/.scbake and <root>/.scbake/tmp
    txState,    \* position of the transaction's user: "open", "committed", "rolledback"
    lastCall,   \* the last Manager call or task step and what it returned
    rbLog,      \* the paths the last Rollback called os.RemoveAll on, in call order
    fs0,        \* history: the filesystem when the transaction was opened
    firstSeen,  \* history: path -> its node at its first successful Track
    atRollback, \* history: Manager.created as it was when Rollback was last called
    steps,      \* number of Track, task and Commit steps taken on the open transaction
    pc,         \* RunApply's position: "start", "exec", "finalize", "save", "returning", "returned"
    rc,         \* RunContext: LangFlag, WithFlag, DryRun
    planIn,     \* plan.Tasks as the handlers appended them
    plan,       \* plan.Tasks as Execute sorted them
    started,    \* one entry per round of Execute's loop: the task, whether it ran, its error
    events,     \* the calls the Reporter received, in order: TaskStart and TaskEnd
    runErr,     \* what RunApply returns: nil, or the error and the task it wraps
    txMade,     \* whether RunApply made a transaction manager
    txLog,      \* the Commit and Rollback calls made on the manager, with their caller
    manifest,   \* the manifest in memory (RunApply's m)
    fsDone,     \* history: the filesystem when executeAndFinalize returned nil
    disciplined, \* history: every task changed only the path it had tracked
    runNo,      \* which run of RunApply on this root is under way: the first or the second
    tpl,        \* the template task's last call: its output path, its final path, its error
    seq,        \* a PrioritySequence: current and max, and how it was constructed
    mu,         \* PrioritySequence.mu: 0 when unlocked, else the process holding it
    procs       \* the callers of Next: position in Next, local p, what Next returned

txVars == <<fs, priv, tempDir, backups, created, tmpFiles, scaffold, txState, lastCall,
            rbLog, fs0, firstSeen, atRollback, steps>>

runVars == <<pc, rc, planIn, plan, started, events, runErr, txMade, txLog, manifest, fsDone, disciplined,
             runNo>>

prioVars == <<seq, mu, procs>>

vars == <<txVars, runVars, tpl, prioVars>>

\* ------------------------------------------------------------------ bounds

MaxSteps == 3

\* ------------------------------------------------------------------ strings

\* strings.HasPrefix(s, prefix) on character sequences.
HasPrefix(s, prefix) ==
    /\ Len(s) >= Len(prefix)
    /\ SubSeq(s, 1, Len(prefix)) = prefix

RECURSIVE JoinSep(_)
\* strings.Join(components, "/") as a character sequence.
JoinSep(comps) ==
    IF comps = <<>> THEN <<>>
    ELSE IF Len(comps) = 1 THEN comps[1]
    ELSE comps[1] \o <<"/">> \o JoinSep(Tail(comps))

\* The text of an absolute path: "/" followed by its components joined by "/".
AbsStr(path) == <<"/">> \o JoinSep(path)

up == <<".", ".">>

RECURSIVE CleanFrom(_, _, _)
\* filepath.Clean: walk the components left to right; ".." removes the last kept
\* component; at the start of an absolute path it is dropped, at the start of a
\* relative path it is kept.
CleanFrom(comps, acc, rooted) ==
    IF comps = <<>> THEN acc
    ELSE LET c == Head(comps) IN
         IF c = up
         THEN IF acc # <<>> /\ acc[Len(acc)] # up
              THEN CleanFrom(Tail(comps), SubSeq(acc, 1, Len(acc) - 1), rooted)
              ELSE IF rooted
                   THEN CleanFrom(Tail(comps), acc, rooted)
                   ELSE CleanFrom(Tail(comps), Append(acc, c), rooted)
         ELSE CleanFrom(Tail(comps), Append(acc, c), rooted)

\* filepath.Clean of a relative path.
CleanRel(comps) == CleanFrom(comps, <<>>, FALSE)

\* filepath.Abs of an absolute path: filepath.Clean of it.
Abs(path) == CleanFrom(path, <<>>, TRUE)

\* filepath.Join(a, b) for an absolute a: Clean(a + "/" + b).
Join(a, b) == CleanFrom(a \o b, <<>>, TRUE)

\* filepath.Base of a non-empty clean path.
Base(path) == path[Len(path)]

\* filepath.Dir of a clean absolute path.
Dir(path) == IF path = <<>> THEN <<>> ELSE SubSeq(path, 1, Len(path) - 1)

RECURSIVE CommonLen(_, _)
\* Number of leading components two paths share.
CommonLen(a, b) ==
    IF a = <<>> \/ b = <<>> \/ Head(a) # Head(b) THEN 0
    ELSE 1 + CommonLen(Tail(a), Tail(b))

\* filepath.Rel(base, targ) for two clean absolute paths, as components:
\* one ".." for every component of base beyond the common prefix, then the
\* rest of targ.
Rel(base, targ) ==
    LET k == CommonLen(base, targ) IN
    [i \in 1..(Len(base) - k) |-> up] \o SubSeq(targ, k + 1, Len(targ))

\* The text filepath.Rel returns ("." when the two paths are equal).
RelStr(base, targ) ==
    IF Rel(base, targ) = <<>> THEN <<".">> ELSE JoinSep(Rel(base, targ))

\* ------------------------------------------------------------------ paths

cT == <<"t">>
cR == <<"r">>
cRX == <<"r", "x">>
cA == <<"a">>
cB == <<"b">>
cF == <<"f">>
cDotC == <<".", ".", "c">>

ManifestFileName == <<"s", "c", "b", "a", "k", "e", ".", "t", "o", "m", "l">>
GitDir == <<".", "g", "i", "t">>

pT == <<cT>>                    \* /t        the root's parent
rootPath == <<cT, cR>>          \* /t/r      the project root
pA == <<cT, cR, cA>>            \* /t/r/a
pAB == <<cT, cR, cA, cB>>       \* /t/r/a/b
pABF == <<cT, cR, cA, cB, cF>>  \* /t/r/a/b/f
pF == <<cT, cR, cF>>            \* /t/r/f
pDotC == <<cT, cR, cDotC>>      \* /t/r/..c  inside the root, its name starts with two dots
pM == <<cT, cR, ManifestFileName>>  \* /t/r/scbake.toml
pMtmp == <<cT, cR, ManifestFileName \o <<".", "t", "m", "p">>>>  \* /t/r/scbake.toml.tmp
pRX == <<cT, cRX>>              \* /t/rx     a sibling whose name has the root's name as a prefix
pRXF == <<cT, cRX, cF>>         \* /t/rx/f
pTF == <<cT, cF>>               \* /t/f      a file beside the root
pGit == <<cT, cR, GitDir>>      \* /t/r/.git

\* The paths whose nodes the transaction's filesystem records: the root and
\* what lies below it. Every other path does not exist.
TxPaths == {rootPath, pA, pAB, pABF, pF}

\* Paths the model uses as directories and as regular files.
DirPaths == {pA, pAB}
FilePaths == {pABF, pF}

\* Whether p lies inside the root (is the root or below it), by components.
InsideRoot(p) == Len(p) >= Len(rootPath) /\ SubSeq(p, 1, Len(rootPath)) = rootPath

\* Whether p is strictly below q.
Below(p, q) == Len(p) > Len(q) /\ SubSeq(p, 1, Len(q)) = q

\* ------------------------------------------------------------------ filesystem

Modes == {"0644", "0600", "0400"}
Contents == {"v0", "v1", "v2", ""}

NoNode == [kind |-> "none", content |-> "", mode |-> ""]
DirNode == [kind |-> "dir", content |-> "", mode |-> "0750"]
SealedDirNode == [kind |-> "dir", content |-> "", mode |-> "0550"]
FileNode(c, m) == [kind |-> "file", content |-> c, mode |-> m]

\* Owner permission bits of a mode.
Writable(m) == m \in {"0644", "0600", "0750"}
Readable(m) == m \in {"0644", "0600", "0400", "0750", "0550"}

\* The node at p; a path outside the modelled universe does not exist.
NodeAt(f, p) == IF p \in DOMAIN f THEN f[p] ELSE NoNode

\* os.Stat(p) succeeds.
Exists(f, p) == NodeAt(f, p).kind # "none"

\* Whether a new entry can be made at p: its parent is an existing directory.
ParentIsDir(f, p) == NodeAt(f, Dir(p)).kind = "dir"

\* A directory the process may not search (no x bit for it), and whether a
\* directory's mode lets the process search it.
ClosedDirNode == [kind |-> "dir", content |-> "", mode |-> "0600"]
Searchable(m) == m \in {"0750", "0550"}

\* os.Stat(p) fails with an error other than "does not exist" when a directory
\* on the way to p cannot be searched by the process.
StatFails(f, p, su) ==
    /\ ~su
    /\ \E k \in 1..(Len(p) - 1) :
          LET d == NodeAt(f, SubSeq(p, 1, k)) IN d.kind = "dir" /\ ~Searchable(d.mode)

\* Whether the process may remove the entry at p: it is privileged, or p's parent
\* is a directory it may write (a parent the filesystem does not record is one).
CanUnlink(f, p, su) ==
    su \/ Dir(p) \notin DOMAIN f \/ Writable(NodeAt(f, Dir(p)).mode)

\* os.RemoveAll(p): p and everything beneath it; an entry goes when it and all
\* beneath it can be removed, and the call fails when p itself stays.
RemoveAll(f, p, su) ==
    LET Goes(q) == \A r \in DOMAIN f :
                      ((r = q \/ Below(r, q)) /\ Exists(f, r)) => CanUnlink(f, r, su)
    IN [err |-> Exists(f, p) /\ ~Goes(p),
        fs |-> [q \in DOMAIN f |-> IF (q = p \/ Below(q, p)) /\ Goes(q) THEN NoNode ELSE f[q]]]

\* os.WriteFile(p, data, perm) = OpenFile(O_WRONLY|O_CREATE|O_TRUNC, perm), write, close.
\* An existing file keeps its mode and needs write permission; a directory cannot
\* be opened for writing; a new file needs an existing parent directory.
WriteFile(f, p, data, perm, su) ==
    LET n == NodeAt(f, p) IN
    IF p \notin DOMAIN f THEN [err |-> TRUE, fs |-> f]
    ELSE IF n.kind = "dir" THEN [err |-> TRUE, fs |-> f]
    ELSE IF n.kind = "file"
         THEN IF su \/ Writable(n.mode)
              THEN [err |-> FALSE, fs |-> [f EXCEPT ![p] = FileNode(data, n.mode)]]
              ELSE [err |-> TRUE, fs |-> f]
    ELSE IF ParentIsDir(f, p)
         THEN [err |-> FALSE, fs |-> [f EXCEPT ![p] = FileNode(data, perm)]]
         ELSE [err |-> TRUE, fs |-> f]

\* os.Mkdir(p, perm).
Mkdir(f, p) ==
    IF p \in DOMAIN f /\ ~Exists(f, p) /\ ParentIsDir(f, p)
    THEN [err |-> FALSE, fs |-> [f EXCEPT ![p] = DirNode]]
    ELSE [err |-> TRUE, fs |-> f]

\* os.Chmod(p, mode) of a regular file.
Chmod(f, p, m) ==
    IF NodeAt(f, p).kind = "file"
    THEN [err |-> FALSE, fs |-> [f EXCEPT ![p] = FileNode(f[p].content, m)]]
    ELSE [err |-> TRUE, fs |-> f]

\* os.Remove(p) of a regular file.
Remove(f, p) ==
    IF NodeAt(f, p).kind = "file"
    THEN [err |-> FALSE, fs |-> [f EXCEPT ![p] = NoNode]]
    ELSE [err |-> TRUE, fs |-> f]

\* copyFile(src, dst, mode), given the node at src, the node at dst and whether
\* dst's parent is a directory: the error and the node at dst afterwards.
\*   os.Open(src) fails when src does not exist or cannot be read;
\*   os.OpenFile(dst, O_RDWR|O_CREATE|O_TRUNC, mode) fails on a directory, on an
\*   existing file the process may not read and write, and under a missing parent;
\*   io.Copy fails reading a directory (dst is already truncated by then);
\*   os.Chmod(dst, mode) sets the mode.
copyFile(srcNode, dstNode, dstParentIsDir, mode, su) ==
    IF srcNode.kind = "none" THEN [err |-> TRUE, node |-> dstNode]
    ELSE IF ~(su \/ Readable(srcNode.mode)) THEN [err |-> TRUE, node |-> dstNode]
    ELSE IF dstNode.kind = "dir" THEN [err |-> TRUE, node |-> dstNode]
    ELSE IF dstNode.kind = "file" /\ ~(su \/ (Readable(dstNode.mode) /\ Writable(dstNode.mode)))
         THEN [err |-> TRUE, node |-> dstNode]
    ELSE IF dstNode.kind = "none" /\ ~dstParentIsDir THEN [err |-> TRUE, node |-> dstNode]
    ELSE IF srcNode.kind = "dir"
         THEN [err |-> TRUE,
               node |-> FileNode("", IF dstNode.kind = "file" THEN dstNode.mode ELSE mode)]
    ELSE [err |-> FALSE, node |-> FileNode(srcNode.content, mode)]

\* ------------------------------------------------------------------ transaction manager

EmptyMap == [x \in {} |-> NoNode]

\* The scaffold: <root>/.scbake ("none", "dir" or a regular "file"), whether
\* <root>/.scbake/tmp exists, whether this run's tx directory exists in it,
\* whether another run's tx directory exists in it, and whether .scbake holds an
\* entry besides tmp.
NoScaffold == [scbake |-> "none", tmp |-> FALSE, own |-> FALSE, other |-> FALSE, extra |-> FALSE]

\* transaction.New(rootPath): the Manager's fields around the filesystem it acts on.
New(f, sc) ==
    [fs |-> f, tempDir |-> "", backups |-> EmptyMap, created |-> <<>>,
     tmpFiles |-> EmptyMap, scaffold |-> sc]

\* A variant of resolveAndValidate that compares the paths' text by prefix, the
\* check the design forbids; C4 must tell the two apart.
resolveAndValidateMutPrefix(path) ==
    [err |-> ~HasPrefix(AbsStr(Abs(path)), AbsStr(rootPath)), absPath |-> Abs(path)]

\* Manager.resolveAndValidate: the cleaned absolute path, or a confinement error
\* when the text of its path relative to the root starts with "..".
resolveAndValidate(path) ==
    LET absPath == Abs(path)
        rel == RelStr(rootPath, absPath)
    IN [err |-> HasPrefix(rel, up) \/ rel = up, absPath |-> absPath]

\* A variant that never finds a path; C13 must tell the two apart.
alreadyTrackedMutNever(st, absPath) == FALSE

\* A variant that looks in backups only; C12 must tell the two apart.
alreadyTrackedMutBackupsOnly(st, absPath) == absPath \in DOMAIN st.backups

\* Manager.alreadyTracked.
alreadyTracked(st, absPath) ==
    \/ absPath \in DOMAIN st.backups
    \/ \E i \in 1..Len(st.created) : st.created[i] = absPath

\* Manager.ensureTempDir: os.MkdirAll(<root>/.scbake/tmp/tx-<nanos>) on first use.
ensureTempDir(st) ==
    IF st.tempDir # "" THEN [err |-> FALSE, st |-> st]
    ELSE IF st.scaffold.scbake = "file" THEN [err |-> TRUE, st |-> st]
    ELSE [err |-> FALSE,
          st |-> [st EXCEPT !.tempDir = "tx",
                            !.scaffold = [scbake |-> "dir", tmp |-> TRUE, own |-> TRUE,
                                          other |-> st.scaffold.other,
                                          extra |-> st.scaffold.extra]]]

Digits == <<"0", "1", "2", "3", "4", "5", "6", "7", "8", "9">>

RECURSIVE Itoa(_)
\* The decimal text of a natural number, as fmt's %d prints it.
Itoa(n) == IF n < 10 THEN <<Digits[n + 1]>> ELSE Itoa(n \div 10) \o <<Digits[(n % 10) + 1]>>

\* A variant that names a backup by the basename alone; C11 must tell the two apart.
BackupNameMutBase(n, base) == base

\* fmt.Sprintf("%d_%s", len(m.backups), safeName): a backup's name in the temp directory.
BackupName(n, base) == Itoa(n) \o <<"_">> \o base

\* A variant of backupFile that records the backup before it copies the file,
\* and leaves the record when the copy fails; C37 must tell the two apart.
backupFileMutRecordFirst(st, absPath, info, su) ==
    LET e == ensureTempDir(st) IN
    IF e.err THEN [err |-> TRUE, st |-> st]
    ELSE LET backupPath == BackupName(Cardinality(DOMAIN e.st.backups), Base(absPath))
             c == copyFile(NodeAt(e.st.fs, absPath), NoNode, TRUE, info.mode, su)
         IN [err |-> c.err,
             st |-> [e.st EXCEPT
                       !.tmpFiles = IF c.node.kind = "none" THEN e.st.tmpFiles
                                    ELSE [n \in DOMAIN e.st.tmpFiles \cup {backupPath} |->
                                             IF n = backupPath THEN c.node
                                             ELSE e.st.tmpFiles[n]],
                       !.backups = [q \in DOMAIN e.st.backups \cup {absPath} |->
                                       IF q = absPath
                                       THEN [tempPath |-> backupPath, mode |-> info.mode]
                                       ELSE e.st.backups[q]]]]

\* Manager.backupFile: the backup's name is "<len(backups)>_<basename>".
backupFile(st, absPath, info, su) ==
    LET e == ensureTempDir(st) IN
    IF e.err THEN [err |-> TRUE, st |-> st]
    ELSE LET backupPath == BackupName(Cardinality(DOMAIN e.st.backups), Base(absPath))
             old == IF backupPath \in DOMAIN e.st.tmpFiles
                    THEN e.st.tmpFiles[backupPath] ELSE NoNode
             c == copyFile(NodeAt(e.st.fs, absPath), old, TRUE, info.mode, su)
             files == IF c.node.kind = "none" THEN e.st.tmpFiles
                      ELSE [n \in DOMAIN e.st.tmpFiles \cup {backupPath} |->
                               IF n = backupPath THEN c.node ELSE e.st.tmpFiles[n]]
         IN IF c.err
            THEN [err |-> TRUE, st |-> [e.st EXCEPT !.tmpFiles = files]]
            ELSE [err |-> FALSE,
                  st |-> [e.st EXCEPT
                            !.tmpFiles = files,
                            !.backups = [q \in DOMAIN e.st.backups \cup {absPath} |->
                                            IF q = absPath
                                            THEN [tempPath |-> backupPath, mode |-> info.mode]
                                            ELSE e.st.backups[q]]]]

\* A variant that makes the temp directory at every first Track, also of a path
\* that does not exist yet; C34 must tell the two apart.
TrackMutEagerTemp(st, path, su) ==
    LET v == resolveAndValidate(path) IN
    IF v.err THEN [err |-> TRUE, st |-> st]
    ELSE IF alreadyTracked(st, v.absPath) THEN [err |-> FALSE, st |-> st]
    ELSE LET info == NodeAt(st.fs, v.absPath) IN
         IF info.kind = "none"
         THEN [err |-> ensureTempDir(st).err,
               st |-> [ensureTempDir(st).st EXCEPT !.created = Append(st.created, v.absPath)]]
         ELSE IF info.kind = "dir" THEN [err |-> FALSE, st |-> st]
         ELSE backupFile(st, v.absPath, info, su)

\* A variant that journals no path that does not exist yet; C25 must tell the two
\* apart.
TrackMutForgetNew(st, path, su) ==
    LET v == resolveAndValidate(path) IN
    IF v.err THEN [err |-> TRUE, st |-> st]
    ELSE IF alreadyTracked(st, v.absPath) THEN [err |-> FALSE, st |-> st]
    ELSE LET info == NodeAt(st.fs, v.absPath) IN
         IF info.kind \in {"none", "dir"} THEN [err |-> FALSE, st |-> st]
         ELSE backupFile(st, v.absPath, info, su)

\* Manager.Track: the confinement check, the journal lookup, os.Stat (absent:
\* created; another error: returned; a directory: nothing), backupFile.
Track(st, path, su) ==
    LET v == resolveAndValidate(path) IN
    IF v.err THEN [err |-> TRUE, st |-> st]
    ELSE IF alreadyTracked(st, v.absPath) THEN [err |-> FALSE, st |-> st]
    ELSE IF StatFails(st.fs, v.absPath, su) THEN [err |-> TRUE, st |-> st]
    ELSE LET info == NodeAt(st.fs, v.absPath) IN
         IF info.kind = "none"
         THEN [err |-> FALSE, st |-> [st EXCEPT !.created = Append(st.created, v.absPath)]]
         ELSE IF info.kind = "dir" THEN [err |-> FALSE, st |-> st]
         ELSE backupFile(st, v.absPath, info, su)

\* A variant that removes both directories with all they hold; C20 must tell the
\* two apart.
cleanupStructureMutRemoveAll(sc) ==
    [scbake |-> "none", tmp |-> FALSE, own |-> FALSE, other |-> FALSE, extra |-> FALSE]

\* Manager.cleanupStructure: os.Remove of .scbake/tmp, then of .scbake; each
\* succeeds only on an empty directory (or on a regular file).
cleanupStructure(sc) ==
    LET tmpGone == sc.tmp /\ ~sc.own /\ ~sc.other
        tmp1 == sc.tmp /\ ~tmpGone
        scbake1 == IF sc.scbake = "file" THEN "none"
                   ELSE IF sc.scbake = "dir" /\ ~tmp1 /\ ~sc.extra THEN "none"
                   ELSE sc.scbake
    IN [scbake |-> scbake1, tmp |-> tmp1, own |-> sc.own, other |-> sc.other,
        extra |-> sc.extra]

\* Manager.resetState.
resetState(st) ==
    [st EXCEPT !.tempDir = "", !.backups = EmptyMap, !.created = <<>>]

\* os.RemoveAll(m.tempDir).
RemoveTempDir(st) ==
    [st EXCEPT !.tmpFiles = EmptyMap, !.scaffold.own = FALSE]

\* Manager.Commit.
Commit(st) ==
    IF st.tempDir = "" THEN [err |-> FALSE, st |-> st]
    ELSE LET s1 == RemoveTempDir(st)
             s2 == [s1 EXCEPT !.scaffold = cleanupStructure(s1.scaffold)]
         IN [err |-> FALSE, st |-> resetState(s2)]

\* A variant that visits created from the first to the last; C10 must tell the two apart.
RollbackOrderMutForward(n) == [k \in 1..n |-> k]

\* The order in which Rollback visits created: its indices from the last to the first.
RollbackOrder(n) == [k \in 1..n |-> n - k + 1]

RECURSIVE DeleteCreatedMutStop(_, _, _, _, _)
\* A variant of phase 1 that gives up at the first path it cannot remove; C29
\* must tell the two apart.
DeleteCreatedMutStop(f, paths, order, log, su) ==
    IF order = <<>> THEN [err |-> FALSE, fs |-> f, log |-> log]
    ELSE LET path == paths[Head(order)]
             r == RemoveAll(f, path, su)
         IN IF ~Exists(f, path) THEN DeleteCreatedMutStop(f, paths, Tail(order), log, su)
            ELSE IF r.err THEN [err |-> TRUE, fs |-> r.fs, log |-> Append(log, path)]
            ELSE DeleteCreatedMutStop(r.fs, paths, Tail(order), Append(log, path), su)

RECURSIVE DeleteCreated(_, _, _, _, _)
\* Rollback, phase 1: for each created path in visiting order, os.RemoveAll it
\* when os.Stat finds it; an error is kept and the loop goes on. The result is
\* whether a removal failed, the filesystem and the RemoveAll calls.
DeleteCreated(f, paths, order, log, su) ==
    IF order = <<>> THEN [err |-> FALSE, fs |-> f, log |-> log]
    ELSE LET path == paths[Head(order)]
             r == RemoveAll(f, path, su)
             rest == DeleteCreated(IF Exists(f, path) THEN r.fs ELSE f, paths, Tail(order),
                                   IF Exists(f, path) THEN Append(log, path) ELSE log, su)
         IN [err |-> (Exists(f, path) /\ r.err) \/ rest.err, fs |-> rest.fs, log |-> rest.log]

\* Rollback, phase 2, for one backed-up path: copyFile(backup.tempPath, originalPath, backup.mode).
RestoreOne(st, f, originalPath, su) ==
    LET backup == st.backups[originalPath]
        src == IF backup.tempPath \in DOMAIN st.tmpFiles
               THEN st.tmpFiles[backup.tempPath] ELSE NoNode
    IN copyFile(src, NodeAt(f, originalPath), ParentIsDir(f, originalPath), backup.mode, su)

\* Manager.Rollback: the error, the Manager afterwards and the RemoveAll calls of phase 1.
Rollback(st, su) ==
    LET p1 == DeleteCreated(st.fs, st.created, RollbackOrder(Len(st.created)), <<>>, su)
        restored == [q \in DOMAIN p1.fs |->
                        IF q \in DOMAIN st.backups
                        THEN RestoreOne(st, p1.fs, q, su).node ELSE p1.fs[q]]
        errs == p1.err \/ \E q \in DOMAIN st.backups : RestoreOne(st, p1.fs, q, su).err
        s2 == [st EXCEPT !.fs = restored]
        s3 == IF st.tempDir # ""
              THEN LET r == RemoveTempDir(s2)
                   IN resetState([r EXCEPT !.scaffold = cleanupStructure(r.scaffold)])
              ELSE s2
    IN [err |-> errs, st |-> s3, log |-> p1.log]

\* ------------------------------------------------------------------ the transaction on its own

\* The Manager's fields and the filesystem as one record, and back.
Mgr ==
    [fs |-> fs, tempDir |-> tempDir, backups |-> backups, created |-> created,
     tmpFiles |-> tmpFiles, scaffold |-> scaffold]

SetMgr(st) ==
    /\ fs' = st.fs
    /\ tempDir' = st.tempDir
    /\ backups' = st.backups
    /\ created' = st.created
    /\ tmpFiles' = st.tmpFiles
    /\ scaffold' = st.scaffold

\* The history of first Tracks: what stood at absPath when Track first accepted it.
Seen(seen, f, path, r) ==
    LET absPath == Abs(path) IN
    IF r.err \/ absPath \in DOMAIN seen THEN seen
    ELSE [q \in DOMAIN seen \cup {absPath} |->
             IF q = absPath THEN NodeAt(f, absPath) ELSE seen[q]]

\* The paths handed to Track: inside the root, outside it, and one that is not clean.
pUnclean == <<cT, cR, up, cRX, cF>>   \* /t/r/../rx/f
TrackInputs == {rootPath, pA, pAB, pABF, pF, pDotC, pT, pUnclean}

\* Initial filesystems: /t, /t/r and /t/rx are directories; below the root, the
\* directory chain a/b with its file and the file f exist or not.
InitTree == {"empty", "abf"}
InitF == {"none", "0644", "0400"}
InitFs(dom, tree, f) ==
    [q \in dom |->
        IF q \in {pT, rootPath, pRX} THEN DirNode
        ELSE IF q = pA /\ tree \in {"a", "ab", "abf"} THEN DirNode
        ELSE IF q = pAB /\ tree \in {"ab", "abf"} THEN DirNode
        ELSE IF q = pABF /\ tree = "abf" THEN FileNode("v0", "0644")
        ELSE IF q = pF /\ f # "none" THEN FileNode("v1", f)
        ELSE NoNode]

\* A scaffold in which another run's tx directory is in place.
OtherRunScaffold ==
    [scbake |-> "dir", tmp |-> TRUE, own |-> FALSE, other |-> TRUE, extra |-> FALSE]

NoCall == [op |-> "none", path |-> <<>>, err |-> FALSE]

NoErr == [err |-> FALSE, task |-> 0]
NoTpl == [called |-> FALSE, output |-> <<>>, final |-> <<>>, force |-> FALSE, dry |-> FALSE,
          err |-> FALSE, changed |-> FALSE]

\* No PrioritySequence is in use.
PrioIdle ==
    /\ seq = [base |-> 0, current |-> 0, max |-> 0, panicked |-> FALSE]
    /\ mu = 0
    /\ procs = <<>>

\* No run of RunApply is under way: the Manager is driven directly.
RunIdle ==
    /\ pc = "idle"
    /\ rc = [LangFlag |-> "", WithFlag |-> <<>>, DryRun |-> FALSE, Force |-> FALSE,
             Env |-> [path |-> {}, failing |-> {}]]
    /\ planIn = <<>>
    /\ plan = <<>>
    /\ started = <<>>
    /\ events = <<>>
    /\ runErr = NoErr
    /\ txMade = FALSE
    /\ txLog = <<>>
    /\ manifest = [Projects |-> <<>>, Templates |-> <<>>]
    /\ fsDone = fs
    /\ disciplined = TRUE
    /\ runNo = 1

\* A freshly opened transaction over one of the initial filesystems.
InitOpen(dom, scaffolds) ==
    /\ \E tree \in InitTree, f \in InitF : fs = InitFs(dom, tree, f)
    /\ priv \in BOOLEAN
    /\ scaffold \in scaffolds
    /\ tempDir = ""
    /\ backups = EmptyMap
    /\ created = <<>>
    /\ tmpFiles = EmptyMap
    /\ txState = "open"
    /\ lastCall = NoCall
    /\ rbLog = <<>>
    /\ fs0 = fs
    /\ firstSeen = EmptyMap
    /\ atRollback = <<>>
    /\ steps = 0

InitTx ==
    /\ InitOpen(TxPaths, {NoScaffold})
    /\ RunIdle
    /\ tpl = NoTpl
    /\ PrioIdle

Step ==
    /\ steps < MaxSteps
    /\ steps' = steps + 1

\* A call of Track(path) on its own.
DoTrack(path) ==
    /\ txState = "open"
    /\ Step
    /\ LET r == Track(Mgr, path, priv) IN
       /\ SetMgr(r.st)
       /\ lastCall' = [op |-> "Track", path |-> path, err |-> r.err]
       /\ firstSeen' = Seen(firstSeen, fs, path, r)
    /\ UNCHANGED <<priv, txState, rbLog, fs0, atRollback, runVars, tpl, prioVars>>

\* What a task does to a path: write it, truncate it, chmod it, remove it, or
\* make it as a directory.
BodyOps ==
    [kind : {"write"}, data : {"v2", ""}, mode : {"0600"}]
    \cup [kind : {"chmod"}, data : {""}, mode : {"0600", "0400"}]
    \cup [kind : {"remove", "mkdir"}, data : {""}, mode : {""}]

BodyPaths(op) == IF op.kind = "mkdir" THEN DirPaths ELSE FilePaths

ApplyBody(f, path, op, su) ==
    IF op.kind = "write" THEN WriteFile(f, path, op.data, op.mode, su)
    ELSE IF op.kind = "chmod" THEN Chmod(f, path, op.mode)
    ELSE IF op.kind = "remove" THEN Remove(f, path)
    ELSE Mkdir(f, path)

\* A task step in the shape of the repository's tasks: Track(path), and when it
\* accepts, the task's body on that path.
DoTaskStep(path, op) ==
    /\ txState = "open"
    /\ Step
    /\ LET r == Track(Mgr, path, priv)
           b == ApplyBody(r.st.fs, path, op, priv)
       IN /\ SetMgr(IF r.err THEN r.st ELSE [r.st EXCEPT !.fs = b.fs])
          /\ lastCall' = [op |-> op.kind, path |-> path, err |-> r.err \/ b.err]
          /\ firstSeen' = Seen(firstSeen, fs, path, r)
    /\ UNCHANGED <<priv, txState, rbLog, fs0, atRollback, runVars, tpl, prioVars>>

\* What is made with no Track before it: a file or a directory.
UntrackedOps == {op \in BodyOps : op.kind = "mkdir" \/ (op.kind = "write" /\ op.data = "v2")}

\* A change of the filesystem with no Track before it.
DoUntracked(path, op) ==
    /\ txState = "open"
    /\ Step
    /\ LET b == ApplyBody(fs, path, op, priv) IN
       /\ ~b.err
       /\ fs' = b.fs
       /\ lastCall' = [op |-> "untracked", path |-> path, err |-> FALSE]
    /\ UNCHANGED <<priv, tempDir, backups, created, tmpFiles, scaffold, txState, rbLog,
                   fs0, firstSeen, atRollback, runVars, tpl, prioVars>>

DoCommit ==
    /\ txState = "open"
    /\ Step
    /\ LET r == Commit(Mgr) IN
       /\ SetMgr(r.st)
       /\ lastCall' = [op |-> "Commit", path |-> <<>>, err |-> r.err]
    /\ txState' = "committed"
    /\ UNCHANGED <<priv, rbLog, fs0, firstSeen, atRollback, runVars, tpl, prioVars>>

\* Rollback ends the transaction's use, whatever the number of steps before it.
DoRollback ==
    /\ txState \in {"open", "committed"}
    /\ LET r == Rollback(Mgr, priv) IN
       /\ SetMgr(r.st)
       /\ lastCall' = [op |-> "Rollback", path |-> <<>>, err |-> r.err]
       /\ rbLog' = r.log
    /\ atRollback' = created
    /\ txState' = IF txState = "committed" THEN "rolledbackAfterCommit" ELSE "rolledback"
    /\ UNCHANGED <<priv, fs0, firstSeen, steps, runVars, tpl, prioVars>>

NextTx ==
    \/ \E path \in TrackInputs : DoTrack(path)
    \/ \E op \in BodyOps : \E path \in BodyPaths(op) : DoTaskStep(path, op)
    \/ \E op \in UntrackedOps : \E path \in BodyPaths(op) : DoUntracked(path, op)
    \/ DoCommit
    \/ DoRollback

SpecTx == InitTx /\ [][NextTx]_vars

\* ------------------------------------------------------------------ the scaffold under other runs

\* What may stand under <root>/.scbake when a transaction opens: nothing,
\* another run's tx directory, an empty tmp left behind, an entry besides tmp,
\* or both another run's directory and such an entry.
ScaffoldInputs ==
    {NoScaffold,
     OtherRunScaffold,
     [scbake |-> "dir", tmp |-> TRUE, own |-> FALSE, other |-> FALSE, extra |-> FALSE],
     [scbake |-> "dir", tmp |-> FALSE, own |-> FALSE, other |-> FALSE, extra |-> TRUE],
     [scbake |-> "dir", tmp |-> TRUE, own |-> FALSE, other |-> TRUE, extra |-> TRUE]}

\* A transaction opened by an unprivileged process over the full tree, with the
\* scaffold in any of these states.
InitScaffold ==
    /\ fs = InitFs(TxPaths, "abf", "0644")
    /\ priv = FALSE
    /\ scaffold \in ScaffoldInputs
    /\ tempDir = ""
    /\ backups = EmptyMap
    /\ created = <<>>
    /\ tmpFiles = EmptyMap
    /\ txState = "open"
    /\ lastCall = NoCall
    /\ rbLog = <<>>
    /\ fs0 = fs
    /\ firstSeen = EmptyMap
    /\ atRollback = <<>>
    /\ steps = 0
    /\ RunIdle
    /\ tpl = NoTpl
    /\ PrioIdle

SpecScaffold == InitScaffold /\ [][NextTx]_vars

\* ------------------------------------------------------------------ tasks

PrioDirCreate == 50
PrioLangSetup == 100

RECURSIVE MkdirAll(_, _)
\* os.MkdirAll(p, perm): p and every missing ancestor of it; what it made before
\* an error stays.
MkdirAll(f, p) ==
    IF NodeAt(f, p).kind = "dir" THEN [err |-> FALSE, fs |-> f]
    ELSE IF NodeAt(f, p).kind = "file" \/ p \notin DOMAIN f THEN [err |-> TRUE, fs |-> f]
    ELSE LET above == MkdirAll(f, Dir(p)) IN
         IF above.err THEN above ELSE Mkdir(above.fs, p)

\* A variant of checkFilePreconditions without the existence check; C15 must
\* tell the two apart.
checkFilePreconditionsMutNoStat(f, finalPath, target, force) ==
    IF ~HasPrefix(AbsStr(finalPath), AbsStr(target)) THEN [err |-> TRUE, fs |-> f]
    ELSE LET d == MkdirAll(f, Dir(finalPath)) IN [err |-> d.err, fs |-> d.fs]

\* checkFilePreconditions(finalPath, output, target, force): the prefix check on
\* the paths' text, os.MkdirAll of the final path's directory, and the existence
\* check unless forced.
checkFilePreconditions(f, finalPath, target, force) ==
    IF ~HasPrefix(AbsStr(finalPath), AbsStr(target)) THEN [err |-> TRUE, fs |-> f]
    ELSE LET d == MkdirAll(f, Dir(finalPath)) IN
         IF d.err THEN [err |-> TRUE, fs |-> d.fs]
         ELSE [err |-> ~force /\ Exists(d.fs, finalPath), fs |-> d.fs]

\* CreateTemplateTask.Execute: nothing in a dry run; otherwise the final path
\* filepath.Join(TargetPath, filepath.Clean(OutputPath)), checkFilePreconditions,
\* os.Create and the rendering into the file.
TemplateExecute(f, target, output, force, dry, su) ==
    LET finalPath == Join(target, CleanRel(output))
        c == checkFilePreconditions(f, finalPath, target, force)
        w == WriteFile(c.fs, finalPath, "rendered", "0644", su)
    IN IF dry THEN [err |-> FALSE, fs |-> f, final |-> finalPath]
       ELSE IF c.err THEN [err |-> TRUE, fs |-> c.fs, final |-> finalPath]
       ELSE [err |-> w.err, fs |-> w.fs, final |-> finalPath]

\* The task shapes: tasks.CreateDirTask, the tests' MockTask (PathToCreate,
\* ShouldFail; path <<>> stands for an empty PathToCreate), a task of the Task
\* interface that tracks a file and then makes it read-only, and
\* tasks.CreateTemplateTask, whose path is its OutputPath, relative to the target.
CreateDirTask(id, path) ==
    [id |-> id, kind |-> "CreateDirTask", path |-> path, prio |-> PrioDirCreate, fail |-> FALSE]
MockTask(id, path, shouldFail) ==
    [id |-> id, kind |-> "MockTask", path |-> path, prio |-> PrioLangSetup, fail |-> shouldFail]
LockTask(id, path) ==
    [id |-> id, kind |-> "LockTask", path |-> path, prio |-> PrioLangSetup, fail |-> FALSE]
CreateTemplateTask(id, output) ==
    [id |-> id, kind |-> "CreateTemplateTask", path |-> output, prio |-> PrioLangSetup,
     fail |-> FALSE]

\* tasks.ExecCommandTask run in the target: PredictedCreated holds paths relative
\* to the target; fail says whether the command exits non-zero, which it does
\* after it has made what it makes.
ExecCommandTask(id, prio, predicted, fail) ==
    [id |-> id, kind |-> "ExecCommandTask", path |-> <<>>, prio |-> prio, fail |-> fail,
     predicted |-> predicted]

\* The tasks handlers may append to a plan.
Tasks ==
    {CreateDirTask(1, pA), CreateDirTask(2, pAB), MockTask(3, pABF, FALSE),
     MockTask(4, pF, FALSE), MockTask(5, <<>>, TRUE), LockTask(6, pF)}

\* CreateDirTask.Execute: filepath.Abs, Track, os.MkdirAll.
CreateDirExecute(t, st, su) ==
    LET absPath == Abs(t.path)
        r == Track(st, absPath, su)
        d == MkdirAll(r.st.fs, absPath)
    IN IF r.err THEN [err |-> TRUE, st |-> r.st]
       ELSE [err |-> d.err, st |-> [r.st EXCEPT !.fs = d.fs]]

\* MockTask.Execute: with a PathToCreate, Track it and os.WriteFile it; then
\* fail when ShouldFail.
MockExecute(t, st, su) ==
    IF t.path = <<>> THEN [err |-> t.fail, st |-> st]
    ELSE LET r == Track(st, t.path, su)
             w == WriteFile(r.st.fs, t.path, "test data", "0600", su)
         IN IF r.err THEN [err |-> TRUE, st |-> r.st]
            ELSE [err |-> w.err \/ t.fail, st |-> [r.st EXCEPT !.fs = w.fs]]

\* A task that tracks its file and then chmods it to 0400.
LockExecute(t, st, su) ==
    LET r == Track(st, t.path, su)
        c == Chmod(r.st.fs, t.path, "0400")
    IN IF r.err THEN [err |-> TRUE, st |-> r.st]
       ELSE [err |-> c.err, st |-> [r.st EXCEPT !.fs = c.fs]]

\* CreateTemplateTask.Execute under the target path /t/r: it never calls Track,
\* so the manager's journal is as before.
CreateTemplateExecute(t, st, force, su) ==
    LET r == TemplateExecute(st.fs, rootPath, t.path, force, FALSE, su)
    IN [err |-> r.err, st |-> [st EXCEPT !.fs = r.fs]]

RECURSIVE TrackAll(_, _, _)
RECURSIVE TrackRest(_, _, _)
\* ExecCommandTask.Execute, step 2: Track of every predicted path, resolved
\* relative to the target /t/r, up to the first error.
TrackAll(st, paths, su) ==
    IF paths = <<>> THEN [err |-> FALSE, st |-> st]
    ELSE TrackRest(Track(st, Join(rootPath, Head(paths)), su), Tail(paths), su)

\* The loop's step after one Track has returned r.
TrackRest(r, paths, su) == IF r.err THEN r ELSE TrackAll(r.st, paths, su)

\* The subprocess: it makes a directory at every predicted path where nothing
\* stands and whose parent is a directory, as git init does for .git.
Spawn(f, paths) ==
    [q \in DOMAIN f |->
        IF /\ \E k \in 1..Len(paths) : Join(rootPath, paths[k]) = q
           /\ ~Exists(f, q)
           /\ ParentIsDir(f, q)
        THEN DirNode ELSE f[q]]

\* ExecCommandTask.Execute after the predicted paths were handed to Track with
\* result r: return its error, or cmd.Run().
RunCommand(t, r) ==
    IF r.err THEN r
    ELSE [err |-> t.fail, st |-> [r.st EXCEPT !.fs = Spawn(r.st.fs, t.predicted)]]

\* ExecCommandTask.Execute in a run that is not dry: Track of the predicted
\* paths, then the command.
ExecCommandExecute(t, st, su) == RunCommand(t, TrackAll(st, t.predicted, su))

\* task.Execute(tc) with tc.DryRun false and tc.Force as given.
TaskExecute(t, st, force, su) ==
    IF t.kind = "CreateDirTask" THEN CreateDirExecute(t, st, su)
    ELSE IF t.kind = "ExecCommandTask" THEN ExecCommandExecute(t, st, su)
    ELSE IF t.kind = "MockTask" THEN MockExecute(t, st, su)
    ELSE IF t.kind = "CreateTemplateTask" THEN CreateTemplateExecute(t, st, force, su)
    ELSE LockExecute(t, st, su)

\* ------------------------------------------------------------------ engine

\* A variant that puts t in front of the tasks of its own priority; C6 must tell
\* the two apart.
InsertStableMutTies(sorted, t) ==
    LET k == Cardinality({i \in 1..Len(sorted) : sorted[i].prio < t.prio})
    IN SubSeq(sorted, 1, k) \o <<t>> \o SubSeq(sorted, k + 1, Len(sorted))

\* One insertion of sort.SliceStable with less(i, j) = Priority(i) < Priority(j):
\* t goes behind every task whose priority is not greater than its own.
InsertStable(sorted, t) ==
    LET k == Cardinality({i \in 1..Len(sorted) : sorted[i].prio <= t.prio})
    IN SubSeq(sorted, 1, k) \o <<t>> \o SubSeq(sorted, k + 1, Len(sorted))

RECURSIVE SliceStable(_)
\* sort.SliceStable(plan.Tasks, by Priority).
SliceStable(tasks) ==
    IF tasks = <<>> THEN <<>>
    ELSE InsertStable(SliceStable(SubSeq(tasks, 1, Len(tasks) - 1)), tasks[Len(tasks)])

\* A variant that executes tasks in a dry run too; C8 must tell the two apart.
ShouldExecuteMutAlways(dryRun) == TRUE

\* Execute's "if !tc.DryRun { err = task.Execute(tc) }".
ShouldExecute(dryRun) == ~dryRun

\* A variant that goes on after a failed task; C7 must tell the two apart.
LoopNextMutIgnoreErr(err, i, n) == IF i < n THEN "next" ELSE "done"

\* Execute's loop after task i of n ended with err: return the wrapped error, go
\* on with the next task, or return nil.
LoopNext(err, i, n) == IF err THEN "failed" ELSE IF i < n THEN "next" ELSE "done"

\* ------------------------------------------------------------------ manifest

\* The project and the template entry a run with ManifestPathArg "." proposes.
GoProject == [Name |-> "r", Path |-> ".", Language |-> "go"]
\* Template names and paths are sequences of pieces of text, so that the key
\* name + ":" + path below is a concatenation.
RootTemplates == [Name |-> <<"root-templates">>, Path |-> <<".">>]

EmptyManifest == [SbakeVersion |-> "v0.0.1", Projects |-> <<>>, Templates |-> <<>>]

\* The manifests a scbake.toml of the model can hold.
Manifests ==
    {[SbakeVersion |-> "v0.0.1", Projects |-> ps, Templates |-> ts] :
        ps \in {<<>>, <<GoProject>>}, ts \in {<<>>, <<RootTemplates>>}}

\* toml.NewEncoder(f).Encode(m): the text of a manifest.
Encode(mf) == ToString(mf)

\* toml.Decode(data, &m): the manifest a text stands for.
Decode(data) == CHOOSE mf \in Manifests : Encode(mf) = data

\* manifest.Load: the manifest of <root>/scbake.toml, or a new, empty one.
Load(f) == IF Exists(f, pM) THEN Decode(f[pM].content) ELSE EmptyManifest

\* A variant of Save that writes the manifest in place, without the sibling file;
\* C24 must tell the two apart.
SaveMutInPlace(f, mf, su, ioFail) ==
    LET w == WriteFile(f, pM, IF ioFail THEN "" ELSE Encode(mf), "0600", su) IN
    [err |-> w.err \/ ioFail, fs |-> w.fs]

\* manifest.Save: os.OpenFile(<root>/scbake.toml.tmp, O_WRONLY|O_CREATE|O_TRUNC, 0600)
\* (a failure returns before the cleanup is deferred); Encode, Sync and Close, any
\* of which may fail (ioFail); os.Rename over <root>/scbake.toml, which fails on a
\* directory; on every error after the open, os.Remove of the sibling file.
Save(f, mf, su, ioFail) ==
    LET w == WriteFile(f, pMtmp, IF ioFail THEN "" ELSE Encode(mf), "0600", su) IN
    IF w.err THEN [err |-> TRUE, fs |-> f]
    ELSE IF ioFail \/ NodeAt(f, pM).kind = "dir"
         THEN [err |-> TRUE, fs |-> Remove(w.fs, pMtmp).fs]
         ELSE [err |-> FALSE,
               fs |-> [w.fs EXCEPT ![pM] = w.fs[pMtmp], ![pMtmp] = NoNode]]

ProjectKey(proj) == proj.Path
TemplateKey(tmpl) == tmpl.Name \o <<":">> \o tmpl.Path

\* A variant of existingProjects that records nothing; C19 must tell the two apart.
ProjectKeysMutNone(entries) == {}

\* existingProjects and existingTemplates: the keys the manifest holds before the loops.
ProjectKeys(entries) == {ProjectKey(entries[i]) : i \in 1..Len(entries)}
TemplateKeys(entries) == {TemplateKey(entries[i]) : i \in 1..Len(entries)}

RECURSIVE AppendNewProjects(_, _, _)
\* updateManifest's first loop: append each new project whose path is not among
\* the paths the manifest held before the loop.
AppendNewProjects(entries, new, existing) ==
    IF new = <<>> THEN entries
    ELSE AppendNewProjects(IF ProjectKey(Head(new)) \in existing
                           THEN entries ELSE Append(entries, Head(new)),
                           Tail(new), existing)

RECURSIVE AppendNewTemplates(_, _, _)
\* updateManifest's second loop, on the key name + ":" + path.
AppendNewTemplates(entries, new, existing) ==
    IF new = <<>> THEN entries
    ELSE AppendNewTemplates(IF TemplateKey(Head(new)) \in existing
                            THEN entries ELSE Append(entries, Head(new)),
                            Tail(new), existing)

\* updateManifest(m, changes).
updateManifest(mf, changes) ==
    [mf EXCEPT
        !.Projects = AppendNewProjects(mf.Projects, changes.Projects,
                                       ProjectKeys(mf.Projects)),
        !.Templates = AppendNewTemplates(mf.Templates, changes.Templates,
                                         TemplateKeys(mf.Templates))]

\* RunApply's futureManifest, the view handed to the tasks: a copy of the loaded
\* manifest with every pending project and template appended.
futureManifest(mf, changes) ==
    [mf EXCEPT !.Projects = mf.Projects \o changes.Projects,
               !.Templates = mf.Templates \o changes.Templates]

RECURSIVE deduplicateFrom(_, _)
deduplicateFrom(requested, result) ==
    IF requested = <<>> THEN result
    ELSE deduplicateFrom(Tail(requested),
                         IF \E i \in 1..Len(result) : result[i] = Head(requested)
                         THEN result ELSE Append(result, Head(requested)))

\* deduplicateTemplates(requested): the first occurrence of each name, in order.
deduplicateTemplates(requested) == deduplicateFrom(requested, <<>>)

\* The registries of lang.GetHandler and templates.GetHandler, and the binaries
\* handleLangFlag asks preflight.CheckBinaries for.
KnownLangs == {"go", "svelte", "spring"}
KnownTemplates ==
    {"makefile", "ci_github", "editorconfig", "go_linter", "maven_linter", "svelte_linter",
     "devcontainer", "git"}
Binaries(langName) ==
    IF langName = "go" THEN {"go"}
    ELSE IF langName = "svelte" THEN {"npm"}
    ELSE IF langName = "spring" THEN {"curl", "unzip", "java"}
    ELSE {}

\* The surroundings of a run, kept beside the RunContext: the binaries on $PATH
\* and the handlers whose GetTasks returns an error.
GoodEnv == [path |-> {"go", "npm", "curl", "unzip", "java"}, failing |-> {}]

\* handleLangFlag's error: a binary is missing, the language is unknown, or its
\* handler's GetTasks fails.
handleLangFlagErr(r) ==
    \/ ~(Binaries(r.LangFlag) \subseteq r.Env.path)
    \/ r.LangFlag \notin KnownLangs
    \/ r.LangFlag \in r.Env.failing

\* handleWithFlag's error: a template is unknown or its handler's GetTasks fails.
handleWithFlagErr(r) ==
    \E i \in 1..Len(r.WithFlag) :
        r.WithFlag[i] \notin KnownTemplates \/ r.WithFlag[i] \in r.Env.failing

\* A variant of buildPlan that passes over a handler it cannot use; C22 must
\* tell the two apart.
buildPlanMutSkipErrors(r, handlerTasks) ==
    [err |-> r.LangFlag = "" /\ Len(r.WithFlag) = 0,
     plan |-> handlerTasks,
     changes |-> [Projects |-> IF r.LangFlag # "" THEN <<GoProject>> ELSE <<>>,
                  Templates |-> IF Len(r.WithFlag) > 0 THEN <<RootTemplates>> ELSE <<>>]]

\* buildPlan(rc), given the tasks the handlers return: the plan, the proposed
\* manifest changes, and an error when a handler fails or when neither --lang
\* nor --with was given.
buildPlan(r, handlerTasks) ==
    [err |-> \/ (r.LangFlag # "" /\ handleLangFlagErr(r))
             \/ (Len(r.WithFlag) > 0 /\ handleWithFlagErr(r))
             \/ (r.LangFlag = "" /\ Len(r.WithFlag) = 0),
     plan |-> handlerTasks,
     changes |-> [Projects |-> IF r.LangFlag # "" THEN <<GoProject>> ELSE <<>>,
                  Templates |-> IF Len(r.WithFlag) > 0 THEN <<RootTemplates>> ELSE <<>>]]

\* ------------------------------------------------------------------ RunApply

MaxTasks == 2

\* Plans: up to MaxTasks different tasks, in any insertion order.
Plans ==
    UNION {{p \in [1..n -> Tasks] : \A i, j \in 1..n : i # j => p[i] # p[j]} :
              n \in 0..MaxTasks}

\* The runs: --lang go, --with ci, or neither; dry or not.
RunContexts ==
    {r \in [LangFlag : {"", "go"}, WithFlag : {<<>>, <<"ci_github">>}, DryRun : BOOLEAN,
             Force : {FALSE}, Env : {GoodEnv}] :
        r.LangFlag = "" \/ r.WithFlag = <<>>}

\* The root before a run: the tree and the file f as for the transaction, and
\* scbake.toml absent or holding a manifest.
InitFsRun(tree, f, mf) ==
    [q \in TxPaths \cup {pM, pMtmp} |->
        IF q = pM
        THEN IF mf = "none" THEN NoNode ELSE FileNode(Encode(EmptyManifest), "0600")
        ELSE IF q = pMtmp THEN NoNode
        ELSE InitFs(TxPaths, tree, f)[q]]

InitRun ==
    /\ \E tree \in InitTree, f \in {"none", "0644"}, mf \in {"none", "empty"} :
          fs = InitFsRun(tree, f, mf)
    /\ priv \in BOOLEAN
    /\ scaffold = NoScaffold
    /\ tempDir = ""
    /\ backups = EmptyMap
    /\ created = <<>>
    /\ tmpFiles = EmptyMap
    /\ txState = "run"
    /\ lastCall = NoCall
    /\ rbLog = <<>>
    /\ fs0 = fs
    /\ firstSeen = EmptyMap
    /\ atRollback = <<>>
    /\ steps = 0
    /\ pc = "start"
    /\ rc \in RunContexts
    /\ planIn \in Plans
    /\ (rc.LangFlag = "" /\ rc.WithFlag = <<>>) => planIn = <<>>
    /\ plan = <<>>
    /\ started = <<>>
    /\ events = <<>>
    /\ runErr = NoErr
    /\ txMade = FALSE
    /\ txLog = <<>>
    /\ manifest = EmptyManifest
    /\ fsDone = fs
    /\ disciplined = TRUE
    /\ runNo = 1
    /\ tpl = NoTpl
    /\ PrioIdle

\* Where RunApply goes once Execute's loop is over without an error.
AfterLoop == IF rc.DryRun THEN "returning" ELSE "finalize"

\* The paths whose node differs between two filesystems.
Changed(f, g) == {q \in DOMAIN f : f[q] # g[q]}

\* RunApply up to Execute's loop: manifest.Load, transaction.New and the deferred
\* Rollback unless dry, deduplicateTemplates, buildPlan, and Execute's sort.
RunStart ==
    /\ pc = "start"
    /\ LET r == [rc EXCEPT !.WithFlag = deduplicateTemplates(rc.WithFlag)]
           built == buildPlan(r, planIn)
       IN /\ rc' = r
          /\ manifest' = Load(fs)
          /\ txMade' = ~rc.DryRun
          /\ plan' = IF built.err THEN <<>> ELSE SliceStable(built.plan)
          /\ runErr' = [err |-> built.err, task |-> 0]
          /\ pc' = IF built.err THEN "returning"
                   ELSE IF built.plan = <<>> THEN AfterLoop ELSE "exec"
    /\ UNCHANGED <<txVars, planIn, started, events, txLog, fsDone, disciplined, runNo, tpl, prioVars>>

\* The Reporter's calls: TaskStart(task.Description(), i+1, len(plan.Tasks)),
\* the description standing for the task, and TaskEnd(err).
TaskStart(desc, current, total) ==
    [call |-> "TaskStart", desc |-> desc, current |-> current, total |-> total]
TaskEnd(err) == [call |-> "TaskEnd", err |-> err]

\* One round of Execute's loop: TaskStart, task.Execute unless dry, TaskEnd, and
\* the wrapped error on failure.
ExecTask ==
    /\ pc = "exec"
    /\ LET i == Len(started) + 1
           t == plan[i]
           run == ShouldExecute(rc.DryRun)
           r == IF run THEN TaskExecute(t, Mgr, rc.Force, priv) ELSE [err |-> FALSE, st |-> Mgr]
           nxt == LoopNext(r.err, i, Len(plan))
       IN /\ SetMgr(r.st)
          /\ started' = Append(started, [id |-> t.id, prio |-> t.prio,
                                         executed |-> run, err |-> r.err])
          /\ events' = events \o <<TaskStart(t.id, i, Len(plan)), TaskEnd(r.err)>>
          /\ disciplined' = (disciplined /\ Changed(fs, r.st.fs) \subseteq
                                   (IF t.kind = "CreateTemplateTask" THEN {} ELSE {Abs(t.path)}))
          /\ runErr' = IF r.err THEN [err |-> TRUE, task |-> t.id] ELSE runErr
          /\ pc' = IF nxt = "failed" THEN "returning"
                   ELSE IF nxt = "next" THEN "exec" ELSE AfterLoop
    /\ UNCHANGED <<priv, txState, lastCall, rbLog, fs0, firstSeen, atRollback, steps,
                   rc, planIn, plan, txMade, txLog, manifest, fsDone, runNo, tpl, prioVars>>

\* executeAndFinalize after Execute returned nil: updateManifest and Track of the
\* manifest path.
Finalize ==
    /\ pc = "finalize"
    /\ LET mf == updateManifest(manifest, buildPlan(rc, planIn).changes)
           r == Track(Mgr, Join(rootPath, <<ManifestFileName>>), priv)
       IN /\ manifest' = mf
          /\ SetMgr(r.st)
          /\ runErr' = [err |-> r.err, task |-> 0]
          /\ pc' = IF r.err THEN "returning" ELSE "save"
    /\ UNCHANGED <<priv, txState, lastCall, rbLog, fs0, firstSeen, atRollback, steps,
                   rc, planIn, plan, started, events, txMade, txLog, fsDone, disciplined, runNo,
                   tpl, prioVars>>

\* executeAndFinalize after the manifest path was tracked: manifest.Save, then
\* Commit when Save returned nil.
SaveAndCommit ==
    /\ pc = "save"
    /\ LET s == Save(fs, manifest, priv, FALSE)
           c == Commit([Mgr EXCEPT !.fs = s.fs])
           ok == ~s.err /\ ~c.err
       IN /\ SetMgr(IF s.err THEN [Mgr EXCEPT !.fs = s.fs] ELSE c.st)
          /\ txLog' = IF s.err THEN txLog
                      ELSE Append(txLog, [call |-> "Commit", by |-> "executeAndFinalize"])
          /\ runErr' = [err |-> ~ok, task |-> 0]
          /\ fsDone' = IF ok THEN c.st.fs ELSE fsDone
    /\ pc' = "returning"
    /\ UNCHANGED <<priv, txState, lastCall, rbLog, fs0, firstSeen, atRollback, steps,
                   rc, planIn, plan, started, events, txMade, manifest, disciplined, runNo, tpl,
                   prioVars>>

\* RunApply returns: the deferred Rollback runs when a manager was made.
Return ==
    /\ pc = "returning"
    /\ IF txMade
       THEN LET r == Rollback(Mgr, priv) IN
            /\ SetMgr(r.st)
            /\ rbLog' = r.log
            /\ atRollback' = created
            /\ txLog' = Append(txLog, [call |-> "Rollback", by |-> "RunApply"])
       ELSE UNCHANGED <<fs, tempDir, backups, created, tmpFiles, scaffold, rbLog,
                        atRollback, txLog>>
    /\ pc' = "returned"
    /\ UNCHANGED <<priv, txState, lastCall, fs0, firstSeen, steps,
                   rc, planIn, plan, started, events, runErr, txMade, manifest, fsDone,
                   disciplined, runNo, tpl, prioVars>>

NextRun ==
    \/ RunStart
    \/ ExecTask
    \/ Finalize
    \/ SaveAndCommit
    \/ Return

SpecRun == InitRun /\ [][NextRun]_vars

\* ------------------------------------------------------------------ applying a template twice

\* The template task of a handler: it renders the file f under the target.
TemplateF == CreateTemplateTask(7, <<cF>>)

\* The repository's tasks a plan with a template may hold.
ReapplyTasks ==
    {CreateDirTask(1, pA), CreateDirTask(2, pAB), MockTask(3, pABF, FALSE),
     MockTask(4, pF, FALSE), MockTask(5, <<>>, TRUE), TemplateF}

\* Plans of up to MaxTasks different tasks that hold the template task.
ReapplyPlans ==
    UNION {{p \in [1..n -> ReapplyTasks] :
               /\ \A i, j \in 1..n : i # j => p[i] # p[j]
               /\ \E i \in 1..n : p[i] = TemplateF} :
              n \in 1..MaxTasks}

\* The runs that apply a template for real: --lang go or --with ci, with or
\* without --force.
ReapplyContexts ==
    {r \in [LangFlag : {"", "go"}, WithFlag : {<<>>, <<"ci_github">>}, DryRun : {FALSE},
             Force : BOOLEAN, Env : {GoodEnv}] :
        (r.LangFlag = "") # (r.WithFlag = <<>>)}

InitReapply ==
    /\ \E tree \in InitTree, f \in {"none", "0644"}, mf \in {"none", "empty"} :
          fs = InitFsRun(tree, f, mf)
    /\ priv \in BOOLEAN
    /\ scaffold = NoScaffold
    /\ tempDir = ""
    /\ backups = EmptyMap
    /\ created = <<>>
    /\ tmpFiles = EmptyMap
    /\ txState = "run"
    /\ lastCall = NoCall
    /\ rbLog = <<>>
    /\ fs0 = fs
    /\ firstSeen = EmptyMap
    /\ atRollback = <<>>
    /\ steps = 0
    /\ pc = "start"
    /\ rc \in ReapplyContexts
    /\ planIn \in ReapplyPlans
    /\ plan = <<>>
    /\ started = <<>>
    /\ events = <<>>
    /\ runErr = NoErr
    /\ txMade = FALSE
    /\ txLog = <<>>
    /\ manifest = EmptyManifest
    /\ fsDone = fs
    /\ disciplined = TRUE
    /\ runNo = 1
    /\ tpl = NoTpl
    /\ PrioIdle

\* The same command is run a second time on the root the first, successful run
\* left: a new process, so a new Manager, over the filesystem as it stands.
Rerun ==
    /\ pc = "returned"
    /\ runNo = 1
    /\ ~runErr.err
    /\ runNo' = 2
    /\ pc' = "start"
    /\ SetMgr(New(fs, scaffold))
    /\ fs0' = fs
    /\ fsDone' = fs
    /\ plan' = <<>>
    /\ started' = <<>>
    /\ events' = <<>>
    /\ runErr' = NoErr
    /\ txMade' = FALSE
    /\ txLog' = <<>>
    /\ manifest' = EmptyManifest
    /\ disciplined' = TRUE
    /\ rbLog' = <<>>
    /\ atRollback' = <<>>
    /\ firstSeen' = EmptyMap
    /\ UNCHANGED <<priv, txState, lastCall, steps, rc, planIn, tpl, prioVars>>

NextReapply ==
    \/ RunStart
    \/ ExecTask
    \/ Finalize
    \/ SaveAndCommit
    \/ Return
    \/ Rerun

SpecReapply == InitReapply /\ [][NextReapply]_vars

\* ------------------------------------------------------------------ the template task

pAF == <<cT, cR, cA, cF>>       \* /t/r/a/f

\* The paths the template task's filesystem records: the root, its parent, the
\* sibling /t/rx, and files in and beside them.
TplPaths == {pT, rootPath, pA, pF, pAF, pRX, pRXF, pTF}

\* OutputPath values: f, a/f, ../f, ../rx/f and a/../../rx/f.
OutputPaths ==
    {<<cF>>, <<cA, cF>>, <<up, cF>>, <<up, cRX, cF>>, <<cA, up, up, cRX, cF>>}

\* Before the task runs: /t and /t/r are directories; /t/rx, /t/r/a and the file
\* /t/r/f exist or not.
InitTpl ==
    /\ \E rx, a, f \in BOOLEAN :
          fs = [q \in TplPaths |->
                   IF q \in {pT, rootPath} \/ (q = pRX /\ rx) \/ (q = pA /\ a) THEN DirNode
                   ELSE IF q = pF /\ f THEN FileNode("v1", "0644")
                   ELSE NoNode]
    /\ priv \in BOOLEAN
    /\ scaffold = NoScaffold
    /\ tempDir = ""
    /\ backups = EmptyMap
    /\ created = <<>>
    /\ tmpFiles = EmptyMap
    /\ txState = "tpl"
    /\ lastCall = NoCall
    /\ rbLog = <<>>
    /\ fs0 = fs
    /\ firstSeen = EmptyMap
    /\ atRollback = <<>>
    /\ steps = 0
    /\ RunIdle
    /\ tpl = NoTpl
    /\ PrioIdle

\* One execution of a template task with target path /t/r.
DoTemplate(output, force, dry) ==
    /\ Step
    /\ LET r == TemplateExecute(fs, rootPath, output, force, dry, priv) IN
       /\ fs' = r.fs
       /\ tpl' = [called |-> TRUE, output |-> output, final |-> r.final, force |-> force,
                  dry |-> dry, err |-> r.err, changed |-> r.fs # fs]
    /\ UNCHANGED <<priv, tempDir, backups, created, tmpFiles, scaffold, txState, lastCall,
                   rbLog, fs0, firstSeen, atRollback, runVars, prioVars>>

NextTpl == \E output \in OutputPaths, force \in BOOLEAN, dry \in BOOLEAN : DoTemplate(output, force, dry)

SpecTpl == InitTpl /\ [][NextTpl]_vars

\* ------------------------------------------------------------------ merging into the manifest

\* The projects and templates a call may bring: two names, two paths, two
\* languages; among the templates, two different (name, path) pairs whose keys
\* name + ":" + path are the same text.
ProjectInputs == [Name : {"r", "s"}, Path : {".", "x"}, Language : {"go", "svelte"}]
TemplateInputs ==
    {RootTemplates,
     [Name |-> <<"root-templates">>, Path |-> <<"x">>],
     [Name |-> <<"a">>, Path |-> <<"b", ":", "c">>],
     [Name |-> <<"a", ":", "b">>, Path |-> <<"c">>]}

\* A manifest without duplicates, and updateManifest not called yet.
InitMerge ==
    /\ fs = InitFs(TxPaths, "empty", "none")
    /\ priv = FALSE
    /\ scaffold = NoScaffold
    /\ tempDir = ""
    /\ backups = EmptyMap
    /\ created = <<>>
    /\ tmpFiles = EmptyMap
    /\ txState = "merge"
    /\ lastCall = NoCall
    /\ rbLog = <<>>
    /\ fs0 = fs
    /\ firstSeen = EmptyMap
    /\ atRollback = <<>>
    /\ steps = 0
    /\ pc = "idle"
    /\ rc = [LangFlag |-> "", WithFlag |-> <<>>, DryRun |-> FALSE, Force |-> FALSE,
             Env |-> [path |-> {}, failing |-> {}]]
    /\ planIn = <<>>
    /\ plan = <<>>
    /\ started = <<>>
    /\ events = <<>>
    /\ runErr = NoErr
    /\ txMade = FALSE
    /\ txLog = <<>>
    /\ manifest \in Manifests
    /\ fsDone = fs
    /\ disciplined = TRUE
    /\ runNo = 1
    /\ tpl = NoTpl
    /\ PrioIdle

\* One call of updateManifest with one project and one template.
DoUpdateManifest(proj, tmpl) ==
    /\ Step
    /\ LET changes == [Projects |-> <<proj>>, Templates |-> <<tmpl>>] IN
       /\ manifest' = updateManifest(manifest, changes)
       /\ lastCall' = [op |-> "updateManifest", path |-> <<>>, err |-> FALSE,
                       changes |-> changes]
    /\ UNCHANGED <<fs, priv, tempDir, backups, created, tmpFiles, scaffold, txState, rbLog, fs0,
                   firstSeen, atRollback, pc, rc, planIn, plan, started, events, runErr, txMade, txLog,
                   fsDone, disciplined, runNo, tpl, prioVars>>

NextMerge == \E proj \in ProjectInputs, tmpl \in TemplateInputs : DoUpdateManifest(proj, tmpl)

SpecMerge == InitMerge /\ [][NextMerge]_vars

\* ------------------------------------------------------------------ priority sequences

PrioConfigUniversal == 1000
PrioCI == 1100
PrioLinter == 1200
PrioBuildSystem == 1400
PrioDevEnv == 1500
PrioVersionControl == 2000

MaxDirCreate == PrioLangSetup - 1
MaxLangSetup == PrioConfigUniversal - 1
MaxConfigUniversal == PrioCI - 1
MaxCI == PrioLinter - 1
MaxLinter == PrioBuildSystem - 1
MaxBuildSystem == PrioDevEnv - 1
MaxVersionControl == 2100

\* The bands: the base and the max their handlers pass to NewPrioritySequence,
\* and the last priority of the band's interval. The dev container handler
\* passes max 0; its band ends one below the version control band.
Bands ==
    {[name |-> "DirCreate", base |-> PrioDirCreate, max |-> MaxDirCreate, last |-> MaxDirCreate],
     [name |-> "LangSetup", base |-> PrioLangSetup, max |-> MaxLangSetup, last |-> MaxLangSetup],
     [name |-> "ConfigUniversal", base |-> PrioConfigUniversal, max |-> MaxConfigUniversal,
      last |-> MaxConfigUniversal],
     [name |-> "CI", base |-> PrioCI, max |-> MaxCI, last |-> MaxCI],
     [name |-> "Linter", base |-> PrioLinter, max |-> MaxLinter, last |-> MaxLinter],
     [name |-> "BuildSystem", base |-> PrioBuildSystem, max |-> MaxBuildSystem,
      last |-> MaxBuildSystem],
     [name |-> "DevEnv", base |-> PrioDevEnv, max |-> 0, last |-> PrioVersionControl - 1],
     [name |-> "VersionControl", base |-> PrioVersionControl, max |-> MaxVersionControl,
      last |-> MaxVersionControl]}

\* NewPrioritySequence(base, maxPrio): it panics when maxPrio is set and below
\* base. The base is kept beside the struct's fields as history.
NewPrioritySequence(base, maxPrio) ==
    [base |-> base, current |-> base, max |-> maxPrio,
     panicked |-> (maxPrio # 0 /\ maxPrio < base)]

\* A variant of Next's check that already refuses the max itself; C16 must tell
\* the two apart.
ExceededMutAtMax(s) == s.max # 0 /\ s.current >= s.max

\* Next's check: the max is set and current is beyond it.
Exceeded(s) == s.max # 0 /\ s.current > s.max

\* A variant of the mutex that admits a caller while another holds it; C17 must
\* tell the two apart.
CanLockMutAlways(holder) == TRUE

\* s.mu.Lock() goes through when nobody holds the mutex.
CanLock(holder) == holder = 0

\* A caller that has not called Next yet.
NewProc == [pc |-> "start", p |-> 0, t |-> 0, ret |-> [p |-> 0, err |-> FALSE], calls |-> 0]

\* Next, s.mu.Lock().
Lock(i) ==
    /\ ~seq.panicked
    /\ procs[i].pc = "start"
    /\ CanLock(mu)
    /\ mu' = i
    /\ procs' = [procs EXCEPT ![i].pc = "locked"]
    /\ UNCHANGED <<seq, txVars, runVars, tpl>>

\* Next, the check of current against max: return 0 and an error, or go on.
Check(i) ==
    /\ procs[i].pc = "locked"
    /\ procs' = IF Exceeded(seq)
                THEN [procs EXCEPT ![i].pc = "unlock", ![i].ret = [p |-> 0, err |-> TRUE]]
                ELSE [procs EXCEPT ![i].pc = "read"]
    /\ UNCHANGED <<seq, mu, txVars, runVars, tpl>>

\* Next, p := s.current.
ReadCurrent(i) ==
    /\ procs[i].pc = "read"
    /\ procs' = [procs EXCEPT ![i].pc = "load", ![i].p = seq.current]
    /\ UNCHANGED <<seq, mu, txVars, runVars, tpl>>

\* Next, s.current++: the load.
IncrLoad(i) ==
    /\ procs[i].pc = "load"
    /\ procs' = [procs EXCEPT ![i].pc = "store", ![i].t = seq.current]
    /\ UNCHANGED <<seq, mu, txVars, runVars, tpl>>

\* Next, s.current++: the store, and return p, nil.
IncrStore(i) ==
    /\ procs[i].pc = "store"
    /\ seq' = [seq EXCEPT !.current = procs[i].t + 1]
    /\ procs' = [procs EXCEPT ![i].pc = "unlock", ![i].ret = [p |-> procs[i].p, err |-> FALSE]]
    /\ UNCHANGED <<mu, txVars, runVars, tpl>>

\* Next, the deferred s.mu.Unlock(); the caller has its result.
Unlock(i) ==
    /\ procs[i].pc = "unlock"
    /\ mu' = 0
    /\ procs' = [procs EXCEPT ![i].pc = "done", ![i].calls = procs[i].calls + 1]
    /\ UNCHANGED <<seq, txVars, runVars, tpl>>

\* The caller calls Next again.
MaxCalls == 905

Again(i) ==
    /\ procs[i].pc = "done"
    /\ procs[i].calls < MaxCalls
    /\ procs' = [procs EXCEPT ![i].pc = "start"]
    /\ UNCHANGED <<seq, mu, txVars, runVars, tpl>>

\* Everything but the sequence and its callers stands still.
PrioOnly ==
    /\ fs = InitFs(TxPaths, "empty", "none")
    /\ priv = FALSE
    /\ scaffold = NoScaffold
    /\ tempDir = ""
    /\ backups = EmptyMap
    /\ created = <<>>
    /\ tmpFiles = EmptyMap
    /\ txState = "prio"
    /\ lastCall = NoCall
    /\ rbLog = <<>>
    /\ fs0 = fs
    /\ firstSeen = EmptyMap
    /\ atRollback = <<>>
    /\ steps = 0
    /\ RunIdle
    /\ tpl = NoTpl

\* The constructions a single caller draws from: the handlers' bands, the tests'
\* (100, 105) and (1000, 0), and small ones around zero, one of them invalid.
DrawInputs ==
    {<<b.base, b.max>> : b \in Bands}
        \cup {<<100, 105>>, <<1000, 0>>, <<105, 100>>, <<3, 3>>, <<0 - 2, 0 - 1>>, <<0 - 2, 0>>,
              <<1, 0>>}

\* A handler: one caller, calling Next time and again.
InitDraw ==
    /\ PrioOnly
    /\ \E in \in DrawInputs : seq = NewPrioritySequence(in[1], in[2])
    /\ mu = 0
    /\ procs = <<NewProc>>

NextDraw ==
    \E i \in DOMAIN procs :
        \/ Lock(i)
        \/ Check(i)
        \/ ReadCurrent(i)
        \/ IncrLoad(i)
        \/ IncrStore(i)
        \/ Unlock(i)
        \/ Again(i)

SpecDraw == InitDraw /\ [][NextDraw]_vars

\* The concurrency test: up to MaxProcs goroutines, each calling Next once on a
\* shared sequence, unbounded or with a max some of them may run into.
MaxProcs == 3

AllocInputs ==
    {<<1000, 0>>, <<100, 105>>, <<PrioDevEnv, 0>>, <<PrioCI, MaxCI>>, <<3, 3>>, <<3, 4>>,
     <<0 - 2, 0 - 1>>, <<0 - 1, 0>>}

InitAlloc ==
    /\ PrioOnly
    /\ \E in \in AllocInputs : seq = NewPrioritySequence(in[1], in[2])
    /\ mu = 0
    /\ \E n \in 1..MaxProcs : procs = [i \in 1..n |-> NewProc]

NextAlloc ==
    \E i \in DOMAIN procs :
        \/ Lock(i)
        \/ Check(i)
        \/ ReadCurrent(i)
        \/ IncrLoad(i)
        \/ IncrStore(i)
        \/ Unlock(i)

SpecAlloc == InitAlloc /\ [][NextAlloc]_vars

\* ------------------------------------------------------------------ root discovery

RECURSIVE WalkUpMutNoGit(_, _)
\* A variant of the walk that looks for scbake.toml alone; C21 must tell the two
\* apart.
WalkUpMutNoGit(f, current) ==
    IF Exists(f, Join(current, <<ManifestFileName>>)) THEN <<"found", current>>
    ELSE IF Dir(current) = current THEN <<"none">>
    ELSE WalkUpMutNoGit(f, Dir(current))

RECURSIVE WalkUp(_, _)
\* FindProjectRoot's loop: the first of current and its ancestors in which
\* os.Stat finds scbake.toml or .git; <<"none">> when the walk passes the
\* filesystem root (whose filepath.Dir is itself) without a find.
WalkUp(f, current) ==
    IF Exists(f, Join(current, <<ManifestFileName>>)) THEN <<"found", current>>
    ELSE IF Exists(f, Join(current, <<GitDir>>)) THEN <<"found", current>>
    ELSE IF Dir(current) = current THEN <<"none">>
    ELSE WalkUp(f, Dir(current))

\* FindProjectRoot(startPath): filepath.Abs, the parent when the path is not a
\* directory, the walk, and the start directory as the fallback.
FindProjectRoot(f, startPath) ==
    LET abs == Abs(startPath)
        startDir == IF NodeAt(f, abs).kind = "file" THEN Dir(abs) ELSE abs
        w == WalkUp(f, startDir)
    IN IF w[1] = "found" THEN w[2] ELSE startDir

\* The directories of the discovery tests: /, /t, /t/r, /t/r/a, and the file
\* /t/r/a/f; a path that does not exist, and one that is not clean.
pAZ == <<cT, cR, cA, <<"z">>>>
RootDirs == {<<>>, pT, rootPath, pA}
StartPaths == {pA, <<cT, cR, cA, cF>>, rootPath, pT, pAZ, <<cT, cR, cA, up, cF>>}

\* The markers a directory holds: none, scbake.toml, .git (a directory), or both.
MarkerSets == {{}, {ManifestFileName}, {GitDir}, {ManifestFileName, GitDir}}

\* The filesystem with the given markers in each directory (none in /).
RootFs(marks) ==
    [q \in RootDirs \cup {<<cT, cR, cA, cF>>, pF}
           \cup {Join(d, <<k>>) : d \in RootDirs, k \in {ManifestFileName, GitDir}} |->
        IF q \in RootDirs THEN DirNode
        ELSE IF q \in {<<cT, cR, cA, cF>>, pF} THEN FileNode("v0", "0644")
        ELSE IF Base(q) \in marks[Dir(q)]
             THEN (IF Base(q) = GitDir THEN DirNode
                   ELSE FileNode(Encode(EmptyManifest), "0600"))
        ELSE NoNode]

InitRoot ==
    /\ \E marks \in [RootDirs -> MarkerSets] : marks[<<>>] = {} /\ fs = RootFs(marks)
    /\ priv = FALSE
    /\ scaffold = NoScaffold
    /\ tempDir = ""
    /\ backups = EmptyMap
    /\ created = <<>>
    /\ tmpFiles = EmptyMap
    /\ txState = "root"
    /\ lastCall = NoCall
    /\ rbLog = <<>>
    /\ fs0 = fs
    /\ firstSeen = EmptyMap
    /\ atRollback = <<>>
    /\ steps = 0
    /\ RunIdle
    /\ tpl = NoTpl
    /\ PrioIdle

\* One call of FindProjectRoot.
DoFindProjectRoot(startPath) ==
    /\ lastCall' = [op |-> "FindProjectRoot", path |-> startPath, err |-> FALSE,
                    found |-> FindProjectRoot(fs, startPath)]
    /\ UNCHANGED <<fs, priv, tempDir, backups, created, tmpFiles, scaffold, txState, rbLog, fs0,
                   firstSeen, atRollback, steps, runVars, tpl, prioVars>>

NextRoot == \E startPath \in StartPaths : DoFindProjectRoot(startPath)

SpecRoot == InitRoot /\ [][NextRoot]_vars

\* ------------------------------------------------------------------ requests that cannot be planned

\* The requests: no, a known or an unknown language; no, a known or an unknown
\* template, or both; $PATH with or without go; GetTasks failing for no handler,
\* for ci or for go.
PlanContexts ==
    [LangFlag : {"", "go", "rust"},
     WithFlag : {<<>>, <<"ci_github">>, <<"does-not-exist">>, <<"ci_github", "does-not-exist">>},
     DryRun : BOOLEAN,
     Force : {FALSE},
     Env : {GoodEnv,
            [path |-> {"npm"}, failing |-> {}],
            [path |-> {"go"}, failing |-> {"ci_github"}],
            [path |-> {"go"}, failing |-> {"go"}]}]

\* What the handlers would hand back were they all to succeed.
PlanTasks ==
    {<<>>, <<MockTask(4, pF, FALSE)>>, <<CreateDirTask(2, pAB), MockTask(3, pABF, FALSE)>>,
     <<MockTask(4, pF, FALSE), MockTask(5, <<>>, TRUE)>>}

InitPlan ==
    /\ \E tree \in InitTree, mf \in {"none", "empty"} : fs = InitFsRun(tree, "0644", mf)
    /\ priv = FALSE
    /\ scaffold = NoScaffold
    /\ tempDir = ""
    /\ backups = EmptyMap
    /\ created = <<>>
    /\ tmpFiles = EmptyMap
    /\ txState = "run"
    /\ lastCall = NoCall
    /\ rbLog = <<>>
    /\ fs0 = fs
    /\ firstSeen = EmptyMap
    /\ atRollback = <<>>
    /\ steps = 0
    /\ pc = "start"
    /\ rc \in PlanContexts
    /\ planIn \in PlanTasks
    /\ plan = <<>>
    /\ started = <<>>
    /\ events = <<>>
    /\ runErr = NoErr
    /\ txMade = FALSE
    /\ txLog = <<>>
    /\ manifest = EmptyManifest
    /\ fsDone = fs
    /\ disciplined = TRUE
    /\ runNo = 1
    /\ tpl = NoTpl
    /\ PrioIdle

SpecPlan == InitPlan /\ [][NextRun]_vars

\* ------------------------------------------------------------------ saving the manifest

\* What may stand at <root>/scbake.toml and at <root>/scbake.toml.tmp before a
\* call of Save: nothing, a file (for the sibling one the process may or may not
\* write), or a directory.
ManifestNodes ==
    {NoNode, DirNode, FileNode(Encode(EmptyManifest), "0600"),
     FileNode(Encode([EmptyManifest EXCEPT !.Projects = <<GoProject>>]), "0644")}
TmpNodes == {NoNode, DirNode, FileNode("v0", "0644"), FileNode("v0", "0400")}

\* The filesystems Save is called on: the root is a directory or does not exist.
SaveFs ==
    {[q \in {rootPath, pM, pMtmp} |->
        IF q = rootPath THEN DirNode ELSE IF q = pM THEN mn ELSE tn] :
        mn \in ManifestNodes, tn \in TmpNodes}
    \cup {[q \in {rootPath, pM, pMtmp} |-> NoNode]}

InitSave ==
    /\ fs \in SaveFs
    /\ priv \in BOOLEAN
    /\ scaffold = NoScaffold
    /\ tempDir = ""
    /\ backups = EmptyMap
    /\ created = <<>>
    /\ tmpFiles = EmptyMap
    /\ txState = "save"
    /\ lastCall = NoCall
    /\ rbLog = <<>>
    /\ fs0 = fs
    /\ firstSeen = EmptyMap
    /\ atRollback = <<>>
    /\ steps = 0
    /\ RunIdle
    /\ tpl = NoTpl
    /\ PrioIdle

\* One call of manifest.Save(mf, root); ioFail says whether Encode, Sync or Close
\* fails.
DoSave(mf, ioFail) ==
    /\ steps < MaxSteps
    /\ LET s == Save(fs, mf, priv, ioFail) IN
       /\ fs' = s.fs
       /\ lastCall' = [op |-> "Save", path |-> pM, err |-> s.err, before |-> fs, mf |-> mf]
    /\ steps' = steps + 1
    /\ UNCHANGED <<priv, tempDir, backups, created, tmpFiles, scaffold, txState, rbLog, fs0,
                   firstSeen, atRollback, runVars, tpl, prioVars>>

NextSave == \E mf \in Manifests, ioFail \in BOOLEAN : DoSave(mf, ioFail)

SpecSave == InitSave /\ [][NextSave]_vars

\* ------------------------------------------------------------------ the git template

\* git's Handler.GetTasks: git init, which is predicted to create .git, then git
\* add and git commit, with the first three priorities of the VersionControl
\* band; each command exits zero or not.
GitTasks(failInit, failAdd, failCommit) ==
    <<ExecCommandTask(8, PrioVersionControl, <<<<GitDir>>>>, failInit),
      ExecCommandTask(9, PrioVersionControl + 1, <<>>, failAdd),
      ExecCommandTask(10, PrioVersionControl + 2, <<>>, failCommit)>>

\* The plans of a run with --with git, alone or behind a directory task.
GitPlans ==
    {GitTasks(a, b, c) : a, b, c \in BOOLEAN}
    \cup {<<CreateDirTask(1, pA)>> \o GitTasks(FALSE, b, FALSE) : b \in BOOLEAN}

GitContexts ==
    [LangFlag : {""}, WithFlag : {<<"git">>}, DryRun : BOOLEAN, Force : {FALSE}, Env : {GoodEnv}]

\* The filesystems of such a run: those of InitFsRun, with or without a .git
\* directory in the root.
InitFsGit(tree, f, mf, git) ==
    [q \in TxPaths \cup {pM, pMtmp, pGit} |->
        IF q = pGit THEN (IF git THEN DirNode ELSE NoNode) ELSE InitFsRun(tree, f, mf)[q]]

InitGit ==
    /\ \E tree \in InitTree, f \in {"none", "0644"}, mf \in {"none", "empty"}, git \in BOOLEAN :
          fs = InitFsGit(tree, f, mf, git)
    /\ priv \in BOOLEAN
    /\ scaffold = NoScaffold
    /\ tempDir = ""
    /\ backups = EmptyMap
    /\ created = <<>>
    /\ tmpFiles = EmptyMap
    /\ txState = "run"
    /\ lastCall = NoCall
    /\ rbLog = <<>>
    /\ fs0 = fs
    /\ firstSeen = EmptyMap
    /\ atRollback = <<>>
    /\ steps = 0
    /\ pc = "start"
    /\ rc \in GitContexts
    /\ planIn \in GitPlans
    /\ plan = <<>>
    /\ started = <<>>
    /\ events = <<>>
    /\ runErr = NoErr
    /\ txMade = FALSE
    /\ txLog = <<>>
    /\ manifest = EmptyManifest
    /\ fsDone = fs
    /\ disciplined = TRUE
    /\ runNo = 1
    /\ tpl = NoTpl
    /\ PrioIdle

SpecGit == InitGit /\ [][NextRun]_vars

\* ------------------------------------------------------------------ undoing more than once

\* No directory has been made read-only.
NoSealedDir == \A q \in DOMAIN fs : fs[q] # SealedDirNode

\* os.Chmod(path, 0550) of a directory by a task or its subprocess, with no Track
\* before it.
DoSeal(path) ==
    /\ txState = "open"
    /\ NodeAt(fs, path) = DirNode
    /\ fs' = [fs EXCEPT ![path] = SealedDirNode]
    /\ lastCall' = [op |-> "seal", path |-> path, err |-> FALSE]
    /\ UNCHANGED <<priv, tempDir, backups, created, tmpFiles, scaffold, txState, rbLog,
                   fs0, firstSeen, atRollback, steps, runVars, tpl, prioVars>>

\* After Rollback has returned, a file or a directory is made again, outside
\* any transaction.
DoRecreate(path, op) ==
    /\ txState = "rolledback"
    /\ LET b == ApplyBody(fs, path, op, priv) IN
       /\ ~b.err
       /\ fs' = b.fs
       /\ lastCall' = [op |-> "recreate", path |-> path, err |-> FALSE]
    /\ UNCHANGED <<priv, tempDir, backups, created, tmpFiles, scaffold, txState, rbLog,
                   fs0, firstSeen, atRollback, steps, runVars, tpl, prioVars>>

\* A second call of Rollback on the same Manager.
DoRollbackAgain ==
    /\ txState = "rolledback"
    /\ LET r == Rollback(Mgr, priv) IN
       /\ SetMgr(r.st)
       /\ lastCall' = [op |-> "Rollback", path |-> <<>>, err |-> r.err]
       /\ rbLog' = r.log
    /\ txState' = "rolledbackTwice"
    /\ UNCHANGED <<priv, fs0, firstSeen, atRollback, steps, runVars, tpl, prioVars>>

\* A transaction over a root that holds at most the file f: what the run makes
\* it makes while no directory is sealed.
InitUndo ==
    /\ fs \in {InitFs(TxPaths, "empty", f) : f \in {"none", "0644"}}
    /\ priv \in BOOLEAN
    /\ scaffold = NoScaffold
    /\ tempDir = ""
    /\ backups = EmptyMap
    /\ created = <<>>
    /\ tmpFiles = EmptyMap
    /\ txState = "open"
    /\ lastCall = NoCall
    /\ rbLog = <<>>
    /\ fs0 = fs
    /\ firstSeen = EmptyMap
    /\ atRollback = <<>>
    /\ steps = 0
    /\ RunIdle
    /\ tpl = NoTpl
    /\ PrioIdle

NextUndo ==
    \/ NoSealedDir /\ \E op \in BodyOps : \E path \in BodyPaths(op) : DoTaskStep(path, op)
    \/ \E path \in DirPaths : DoSeal(path)
    \/ DoCommit
    \/ DoRollback
    \/ NoSealedDir /\ \E op \in UntrackedOps : \E path \in BodyPaths(op) : DoRecreate(path, op)
    \/ DoRollbackAgain

SpecUndo == InitUndo /\ [][NextUndo]_vars

\* ------------------------------------------------------------------ the directory task on its own

\* CreateDirTask.Execute after the guarded Track returned r: the Track error, or
\* os.MkdirAll(absPath, DirPerms), which the code calls whatever tc.DryRun is.
MkdirAfterTrack(r, absPath) ==
    IF r.err THEN [err |-> TRUE, st |-> r.st]
    ELSE LET d == MkdirAll(r.st.fs, absPath) IN [err |-> d.err, st |-> [r.st EXCEPT !.fs = d.fs]]

\* CreateDirTask.Execute(tc): filepath.Abs; Track when !tc.DryRun && tc.Tx != nil;
\* then os.MkdirAll.
CreateDirTaskExecute(t, st, dryRun, hasTx, su) ==
    MkdirAfterTrack(IF ~dryRun /\ hasTx THEN Track(st, Abs(t.path), su)
                    ELSE [err |-> FALSE, st |-> st],
                    Abs(t.path))

\* The paths a CreateDirTask is given: directories to make, and a path where a
\* file may stand.
CreateDirPaths == {pA, pAB, pF}

\* task.Execute(tc) of a CreateDirTask for path, called directly as the tests do.
DoCreateDir(path, dryRun, hasTx) ==
    /\ txState = "open"
    /\ Step
    /\ LET r == CreateDirTaskExecute(CreateDirTask(1, path), Mgr, dryRun, hasTx, priv) IN
       /\ SetMgr(r.st)
       /\ lastCall' = [op |-> "CreateDir", path |-> path, err |-> r.err, dry |-> dryRun,
                       tx |-> hasTx, before |-> Mgr]
    /\ UNCHANGED <<priv, txState, rbLog, fs0, firstSeen, atRollback, runVars, tpl, prioVars>>

\* A Manager over a root in which none, some or all of a/b/f exists.
InitDir ==
    /\ \E tree \in {"empty", "a", "ab", "abf"}, f \in InitF : fs = InitFs(TxPaths, tree, f)
    /\ priv \in BOOLEAN
    /\ scaffold = NoScaffold
    /\ tempDir = ""
    /\ backups = EmptyMap
    /\ created = <<>>
    /\ tmpFiles = EmptyMap
    /\ txState = "open"
    /\ lastCall = NoCall
    /\ rbLog = <<>>
    /\ fs0 = fs
    /\ firstSeen = EmptyMap
    /\ atRollback = <<>>
    /\ steps = 0
    /\ RunIdle
    /\ tpl = NoTpl
    /\ PrioIdle

NextDir ==
    \E path \in CreateDirPaths, dryRun \in BOOLEAN, hasTx \in BOOLEAN :
        DoCreateDir(path, dryRun, hasTx)

SpecDir == InitDir /\ [][NextDir]_vars

\* ------------------------------------------------------------------ one Manager, concurrent callers

\* A call of a public method of the Manager by one goroutine: the method, its
\* argument, the caller's position in it, its locals, what it returned, and (as
\* history) the Manager as it was when the caller got the mutex.
NewCall(op, path) ==
    [pc |-> "start", op |-> op, path |-> path, absPath |-> <<>>, info |-> NoNode,
     backupPath |-> <<>>, ret |-> FALSE, snap |-> New(EmptyMap, NoScaffold)]

\* The calls the goroutines make: Track of a path that may be absent, of two
\* files with the same basename, of a path outside the root; Commit; Rollback.
CallInputs ==
    {NewCall("Track", p) : p \in {pA, pF, pABF, pT}}
        \cup {NewCall("Commit", <<>>), NewCall("Rollback", <<>>)}

\* The goroutines that share the Manager.
TxCallers == {1, 2}

\* What the shared-Manager actions leave alone.
SharedFrame ==
    UNCHANGED <<priv, txState, lastCall, rbLog, fs0, firstSeen, atRollback, steps, seq,
                runVars, tpl>>

\* Caller i returns err from where it is: the deferred Unlock is what is left.
Returning(i, err) == [procs EXCEPT ![i].pc = "unlock", ![i].ret = err]

\* Track, Commit, Rollback: m.mu.Lock().
TxLock(i) ==
    /\ procs[i].pc = "start"
    /\ CanLock(mu)
    /\ mu' = i
    /\ procs' = [procs EXCEPT ![i].pc = "locked", ![i].snap = Mgr]
    /\ UNCHANGED <<fs, tempDir, backups, created, tmpFiles, scaffold>>
    /\ SharedFrame

\* Track: resolveAndValidate, alreadyTracked and os.Stat, which decide the branch.
TrackResolve(i) ==
    /\ procs[i].pc = "locked"
    /\ procs[i].op = "Track"
    /\ LET v == resolveAndValidate(procs[i].path)
           info == NodeAt(fs, v.absPath)
       IN procs' = IF v.err THEN Returning(i, TRUE)
                   ELSE IF alreadyTracked(Mgr, v.absPath) THEN Returning(i, FALSE)
                   ELSE IF StatFails(fs, v.absPath, priv) THEN Returning(i, TRUE)
                   ELSE IF info.kind = "none"
                        THEN [procs EXCEPT ![i].pc = "append", ![i].absPath = v.absPath]
                   ELSE IF info.kind = "dir" THEN Returning(i, FALSE)
                   ELSE [procs EXCEPT ![i].pc = "backup", ![i].absPath = v.absPath,
                                      ![i].info = info]
    /\ UNCHANGED <<fs, tempDir, backups, created, tmpFiles, scaffold, mu>>
    /\ SharedFrame

\* Track: m.created = append(m.created, absPath).
TrackAppend(i) ==
    /\ procs[i].pc = "append"
    /\ created' = Append(created, procs[i].absPath)
    /\ procs' = Returning(i, FALSE)
    /\ UNCHANGED <<fs, tempDir, backups, tmpFiles, scaffold, mu>>
    /\ SharedFrame

\* backupFile: ensureTempDir, and the backup's name from len(m.backups).
TrackBackupName(i) ==
    /\ procs[i].pc = "backup"
    /\ LET e == ensureTempDir(Mgr) IN
       /\ tempDir' = e.st.tempDir
       /\ scaffold' = e.st.scaffold
       /\ procs' = IF e.err THEN Returning(i, TRUE)
                   ELSE [procs EXCEPT
                           ![i].pc = "copy",
                           ![i].backupPath = BackupName(Cardinality(DOMAIN backups),
                                                        Base(procs[i].absPath))]
    /\ UNCHANGED <<fs, backups, created, tmpFiles, mu>>
    /\ SharedFrame

\* backupFile: copyFile(absPath, backupPath, info.Mode()) into the temp directory.
TrackCopy(i) ==
    /\ procs[i].pc = "copy"
    /\ LET name == procs[i].backupPath
           old == IF name \in DOMAIN tmpFiles THEN tmpFiles[name] ELSE NoNode
           c == copyFile(NodeAt(fs, procs[i].absPath), old, scaffold.own, procs[i].info.mode,
                         priv)
       IN /\ tmpFiles' = IF c.node.kind = "none" THEN tmpFiles
                         ELSE [n \in DOMAIN tmpFiles \cup {name} |->
                                  IF n = name THEN c.node ELSE tmpFiles[n]]
          /\ procs' = IF c.err THEN Returning(i, TRUE) ELSE [procs EXCEPT ![i].pc = "record"]
    /\ UNCHANGED <<fs, tempDir, backups, created, scaffold, mu>>
    /\ SharedFrame

\* backupFile: m.backups[absPath] = backupEntry{tempPath, mode}.
TrackRecord(i) ==
    /\ procs[i].pc = "record"
    /\ backups' = [q \in DOMAIN backups \cup {procs[i].absPath} |->
                      IF q = procs[i].absPath
                      THEN [tempPath |-> procs[i].backupPath, mode |-> procs[i].info.mode]
                      ELSE backups[q]]
    /\ procs' = Returning(i, FALSE)
    /\ UNCHANGED <<fs, tempDir, created, tmpFiles, scaffold, mu>>
    /\ SharedFrame

\* Commit: return nil when no temp directory was made, else os.RemoveAll of it
\* and cleanupStructure.
CommitRemove(i) ==
    /\ procs[i].pc = "locked"
    /\ procs[i].op = "Commit"
    /\ IF tempDir = ""
       THEN /\ procs' = Returning(i, FALSE)
            /\ UNCHANGED <<tmpFiles, scaffold>>
       ELSE /\ procs' = [procs EXCEPT ![i].pc = "reset"]
            /\ tmpFiles' = EmptyMap
            /\ scaffold' = cleanupStructure(RemoveTempDir(Mgr).scaffold)
    /\ UNCHANGED <<fs, tempDir, backups, created, mu>>
    /\ SharedFrame

\* Commit and Rollback: m.resetState().
TxReset(i) ==
    /\ procs[i].pc = "reset"
    /\ tempDir' = ""
    /\ backups' = EmptyMap
    /\ created' = <<>>
    /\ procs' = Returning(i, procs[i].ret)
    /\ UNCHANGED <<fs, tmpFiles, scaffold, mu>>
    /\ SharedFrame

\* Rollback, phase 1: the created paths are deleted, last first.
RollbackDelete(i) ==
    /\ procs[i].pc = "locked"
    /\ procs[i].op = "Rollback"
    /\ LET p1 == DeleteCreated(fs, created, RollbackOrder(Len(created)), <<>>, priv) IN
       /\ fs' = p1.fs
       /\ procs' = [procs EXCEPT ![i].pc = "restore", ![i].ret = p1.err]
    /\ UNCHANGED <<tempDir, backups, created, tmpFiles, scaffold, mu>>
    /\ SharedFrame

\* Rollback, phase 2: every backup is copied back.
RollbackRestore(i) ==
    /\ procs[i].pc = "restore"
    /\ fs' = [q \in DOMAIN fs |->
                 IF q \in DOMAIN backups THEN RestoreOne(Mgr, fs, q, priv).node ELSE fs[q]]
    /\ procs' = [procs EXCEPT
                   ![i].pc = "cleanup",
                   ![i].ret = \/ procs[i].ret
                              \/ \E q \in DOMAIN backups : RestoreOne(Mgr, fs, q, priv).err]
    /\ UNCHANGED <<tempDir, backups, created, tmpFiles, scaffold, mu>>
    /\ SharedFrame

\* Rollback, phase 3: with a temp directory, os.RemoveAll of it and
\* cleanupStructure, then resetState; without one, nothing.
RollbackCleanup(i) ==
    /\ procs[i].pc = "cleanup"
    /\ IF tempDir = ""
       THEN /\ procs' = Returning(i, procs[i].ret)
            /\ UNCHANGED <<tmpFiles, scaffold>>
       ELSE /\ procs' = [procs EXCEPT ![i].pc = "reset"]
            /\ tmpFiles' = EmptyMap
            /\ scaffold' = cleanupStructure(RemoveTempDir(Mgr).scaffold)
    /\ UNCHANGED <<fs, tempDir, backups, created, mu>>
    /\ SharedFrame

\* The deferred m.mu.Unlock(); the caller has its result.
TxUnlock(i) ==
    /\ procs[i].pc = "unlock"
    /\ mu' = 0
    /\ procs' = [procs EXCEPT ![i].pc = "done"]
    /\ UNCHANGED <<fs, tempDir, backups, created, tmpFiles, scaffold>>
    /\ SharedFrame

\* A fresh Manager over a root where a/b/f and f exist or not, and goroutines
\* that each make one call on it.
InitShared ==
    /\ \E tree \in InitTree, f \in {"none", "0644"} : fs = InitFs(TxPaths, tree, f)
    /\ priv \in BOOLEAN
    /\ scaffold = NoScaffold
    /\ tempDir = ""
    /\ backups = EmptyMap
    /\ created = <<>>
    /\ tmpFiles = EmptyMap
    /\ txState = "shared"
    /\ lastCall = NoCall
    /\ rbLog = <<>>
    /\ fs0 = fs
    /\ firstSeen = EmptyMap
    /\ atRollback = <<>>
    /\ steps = 0
    /\ RunIdle
    /\ tpl = NoTpl
    /\ seq = [base |-> 0, current |-> 0, max |-> 0, panicked |-> FALSE]
    /\ mu = 0
    /\ procs \in [TxCallers -> CallInputs]

NextShared ==
    \E i \in TxCallers :
        \/ TxLock(i)
        \/ TrackResolve(i)
        \/ TrackAppend(i)
        \/ TrackBackupName(i)
        \/ TrackCopy(i)
        \/ TrackRecord(i)
        \/ CommitRemove(i)
        \/ RollbackDelete(i)
        \/ RollbackRestore(i)
        \/ RollbackCleanup(i)
        \/ TxReset(i)
        \/ TxUnlock(i)

SpecShared == InitShared /\ [][NextShared]_vars

\* ------------------------------------------------------------------ a journal under a directory of the run

\* A transaction over a root in which the directory a exists, alone or with a/b:
\* a directory the run makes beneath it can come to hold a file before that file
\* is first tracked.
InitNested ==
    /\ \E tree \in {"a", "ab"}, f \in {"none", "0644"} : fs = InitFs(TxPaths, tree, f)
    /\ priv \in BOOLEAN
    /\ scaffold = NoScaffold
    /\ tempDir = ""
    /\ backups = EmptyMap
    /\ created = <<>>
    /\ tmpFiles = EmptyMap
    /\ txState = "open"
    /\ lastCall = NoCall
    /\ rbLog = <<>>
    /\ fs0 = fs
    /\ firstSeen = EmptyMap
    /\ atRollback = <<>>
    /\ steps = 0
    /\ RunIdle
    /\ tpl = NoTpl
    /\ PrioIdle

SpecNested == InitNested /\ [][NextTx]_vars

\* ------------------------------------------------------------------ Track where it must fail

\* <root>/.scbake is a regular file, so the temp directory cannot be made.
FileScaffold == [scbake |-> "file", tmp |-> FALSE, own |-> FALSE, other |-> FALSE, extra |-> FALSE]

\* The root with a/b/f in place, the directory a closed to the process or not,
\* and the file f absent, readable, or unreadable (0200).
ErrFs(closed, f) ==
    [q \in TxPaths |->
        IF q \in {rootPath, pAB} THEN DirNode
        ELSE IF q = pA THEN (IF closed THEN ClosedDirNode ELSE DirNode)
        ELSE IF q = pABF THEN FileNode("v0", "0644")
        ELSE IF f # "none" THEN FileNode("v1", f)
        ELSE NoNode]

InitTrackErr ==
    /\ \E closed \in BOOLEAN, f \in {"none", "0644", "0200"} : fs = ErrFs(closed, f)
    /\ priv \in BOOLEAN
    /\ scaffold \in {NoScaffold, FileScaffold}
    /\ tempDir = ""
    /\ backups = EmptyMap
    /\ created = <<>>
    /\ tmpFiles = EmptyMap
    /\ txState = "open"
    /\ lastCall = NoCall
    /\ rbLog = <<>>
    /\ fs0 = fs
    /\ firstSeen = EmptyMap
    /\ atRollback = <<>>
    /\ steps = 0
    /\ RunIdle
    /\ tpl = NoTpl
    /\ PrioIdle

\* The paths handed to Track here: those of TrackInputs and an absent entry of
\* the root.
TrackErrInputs == TrackInputs \cup {<<cT, cR, <<"n">>>>}

NextTrackErr == \E path \in TrackErrInputs : DoTrack(path)

SpecTrackErr == InitTrackErr /\ [][NextTrackErr]_vars

\* ------------------------------------------------------------------ claims on the transaction

\* C3: a committed transaction is inert: a Rollback that follows a Commit deletes
\* no path, overwrites no file and returns nil, whether or not a backup (and the
\* temp directory) was ever made.
C3_CommittedRollbackIsInert ==
    [][(txState = "committed" /\ txState' = "rolledbackAfterCommit")
        => (fs' = fs /\ scaffold' = scaffold /\ ~lastCall'.err)]_vars

\* C4: Track returns a confinement error for every path that resolves outside
\* the root (a sibling whose name has the root's name as a prefix included), and
\* every key of backups and every element of created lies inside the root.
C4_TrackConfinement ==
    /\ (lastCall.op = "Track" /\ ~InsideRoot(Abs(lastCall.path))) => lastCall.err
    /\ \A p \in DOMAIN backups : InsideRoot(p)
    /\ \A i \in 1..Len(created) : InsideRoot(created[i])

\* C4 witness: Track of /t/r/../rx/f (the sibling /t/rx) was refused while the
\* journal holds a backup and a created path.
C4_Witness ==
    /\ lastCall = [op |-> "Track", path |-> pUnclean, err |-> TRUE]
    /\ DOMAIN backups # {}
    /\ created # <<>>

\* C9: after Rollback every file that was a regular file at its first Track has
\* the content and the mode it had then, whatever was done to it in between.
C9_ModifyRestore ==
    txState = "rolledback" =>
        \A p \in DOMAIN firstSeen :
            firstSeen[p].kind = "file" => fs[p] = firstSeen[p]

\* C10: Rollback visits created from its last entry to its first and calls
\* os.RemoveAll on exactly the entries that exist when their turn comes (an entry
\* is gone by then when a later entry above it was removed); afterwards no
\* created path exists.
C10_LifoRollback ==
    [][(txState = "open" /\ txState' = "rolledback") =>
        LET n == Len(created)
            removed(i) == /\ Exists(fs, created[i])
                          /\ \A j \in (i + 1)..n : ~Below(created[i], created[j])
            pos(q) == CHOOSE i \in 1..n : created[i] = q
        IN /\ \A k \in 1..Len(rbLog') : \E i \in 1..n : created[i] = rbLog'[k] /\ removed(i)
           /\ \A i \in 1..n : removed(i) => \E k \in 1..Len(rbLog') : rbLog'[k] = created[i]
           /\ \A k, l \in 1..Len(rbLog') : k < l => pos(rbLog'[k]) > pos(rbLog'[l])
           /\ \A i \in 1..n : ~Exists(fs', created[i])]_vars

\* C10 witness: a/, a/b/ and a/b/f were tracked and created in that order, and
\* Rollback removed a/b/f, then a/b/, then a/.
C10_Witness ==
    /\ txState = "rolledback"
    /\ atRollback = <<pA, pAB, pABF>>
    /\ rbLog = <<pABF, pAB, pA>>
    /\ \A q \in {pA, pAB, pABF} : ~Exists(fs, q)

\* ------------------------------------------------------------------ claims on a run

\* C1: when Execute fails at a task, every task having changed only the path it
\* had tracked, then after the Rollback every path under the root is as it was
\* before the run.
C1_FailureAtomicity ==
    (pc = "returned" /\ txMade /\ runErr.err /\ runErr.task # 0 /\ disciplined)
        => fs = fs0

\* C2: when a run that is not dry returns nil, then after its deferred Rollback
\* every path the run changed, and the manifest, is as the run wrote it.
C2_SuccessPersistence ==
    (pc = "returned" /\ ~rc.DryRun /\ ~runErr.err) =>
        \A q \in DOMAIN fs : (fsDone[q] # fs0[q] \/ q = pM) => fs[q] = fsDone[q]

\* C6: tasks are started in non-decreasing priority, and tasks of equal priority
\* in the order in which they were appended to the plan.
C6_ExecutionOrder ==
    LET pos(id) == CHOOSE k \in 1..Len(planIn) : planIn[k].id = id IN
    \A i, j \in 1..Len(started) : i < j =>
        /\ started[i].prio <= started[j].prio
        /\ started[i].prio = started[j].prio => pos(started[i].id) < pos(started[j].id)

\* C6 witness: two tasks were executed in the order opposite to their insertion
\* order, the second one appended having the lower priority.
C6_Witness ==
    /\ pc = "returned"
    /\ Len(started) = 2
    /\ started[1].executed /\ started[2].executed
    /\ started[1].id = planIn[2].id
    /\ planIn[2].prio < planIn[1].prio

\* C7: a task that returned an error is the last one started, Execute's error
\* wraps that task, and when Execute has returned neither Commit nor Rollback has
\* been called.
C7_AbortOnFirstError ==
    \A i \in 1..Len(started) : started[i].err =>
        /\ i = Len(started)
        /\ pc \in {"returning", "returned"}
        /\ runErr = [err |-> TRUE, task |-> started[i].id]
        /\ pc = "returning" => txLog = <<>>

\* C7 witness: the first of two tasks failed after it had tracked its path;
\* Execute has returned, the second task was not started, the journal still
\* holds the path.
C7_Witness ==
    /\ pc = "returning"
    /\ Len(plan) = 2
    /\ Len(started) = 1
    /\ started[1].err
    /\ created # <<>>
    /\ txLog = <<>>

\* C8: in a dry run no transaction manager is made, no task is executed, the
\* manifest is not written and no path under the root changes.
C8_DryRunPurity ==
    rc.DryRun =>
        /\ ~txMade
        /\ txLog = <<>>
        /\ tempDir = "" /\ backups = EmptyMap /\ created = <<>>
        /\ \A i \in 1..Len(started) : ~started[i].executed
        /\ fs = fs0

\* C8 witness: a dry run of a plan of two tasks has returned nil, both tasks
\* having been reported.
C8_Witness ==
    /\ rc.DryRun
    /\ pc = "returned"
    /\ Len(started) = 2
    /\ ~runErr.err

\* ------------------------------------------------------------------ claims on the template task

\* C5: when the final path of a template task is not inside the target path, the
\* task (not in a dry run) returns an error and makes no file and no directory.
C5_TemplateConfinement ==
    (tpl.called /\ ~tpl.dry /\ ~InsideRoot(tpl.final)) => (tpl.err /\ ~tpl.changed)

\* ------------------------------------------------------------------ claims on the journal

C14_CreateDirRollback ==
    (pc = "returned" /\ txMade /\ runErr.err) =>
        \A q \in DirPaths : fs0[q].kind = "none" => fs[q].kind = "none"

C16_SequenceCounts ==
    /\ seq.panicked <=> (seq.max # 0 /\ seq.max < seq.base)
    /\ seq.panicked => procs[1] = NewProc
    /\ procs[1].pc = "done" =>
          LET k == procs[1].calls IN
          IF seq.max = 0 \/ k <= seq.max - seq.base + 1
          THEN procs[1].ret = [p |-> seq.base + k - 1, err |-> FALSE]
          ELSE procs[1].ret.err

\* C16 witness: on the sequence (100, 105) six calls have counted current up to
\* 106 and the seventh has returned an error.
C16_Witness ==
    /\ seq.base = 100
    /\ seq.max = 105
    /\ seq.current = 106
    /\ procs[1].calls = 7
    /\ procs[1].ret = [p |-> 0, err |-> TRUE]
    /\ procs[1].pc = "done"

\* C17: when every one of the N goroutines has returned from its one call of
\* Next and the ceiling allows N priorities, none got an error, no two got the
\* same priority, and together they got exactly base .. base + N - 1.
C17_ConcurrentAllocation ==
    LET N == Len(procs) IN
    ((\A i \in 1..N : procs[i].pc = "done") /\ (seq.max = 0 \/ seq.base + N - 1 <= seq.max))
        => /\ \A i \in 1..N : ~procs[i].ret.err
           /\ \A i, j \in 1..N : i # j => procs[i].ret.p # procs[j].ret.p
           /\ {procs[i].ret.p : i \in 1..N} = seq.base .. (seq.base + N - 1)

\* C17 witness: three goroutines have returned from Next on the unbounded
\* sequence based at 1000, the third one with the lowest priority.
C17_Witness ==
    /\ seq.base = 1000
    /\ seq.max = 0
    /\ Len(procs) = 3
    /\ \A i \in 1..3 : procs[i].pc = "done"
    /\ procs[3].ret.p = 1000
    /\ procs[1].ret.p = 1002

\* C18: every priority Next returns from the allocator a handler builds for a
\* band lies between the band's base and its last priority and in no other
\* band's interval; the dev container allocator, based at 1500, never returns a
\* priority of the version control band.
C18_BandMembership ==
    \A b \in Bands :
        (/\ seq.base = b.base
         /\ seq.max = b.max
         /\ procs[1].pc = "done"
         /\ ~procs[1].ret.err)
        => /\ procs[1].ret.p \in b.base .. b.last
           /\ \A o \in Bands \ {b} : procs[1].ret.p \notin o.base .. o.last

\* ------------------------------------------------------------------ claims on the manifest

\* C19: after every call of updateManifest with one project and one template,
\* applying the same changes once more leaves the manifest as it is, no two
\* projects of the manifest have the same path, and no two templates have the
\* same name and path.
C19_MergeIdempotence ==
    lastCall.op = "updateManifest" =>
        /\ updateManifest(manifest, lastCall.changes) = manifest
        /\ \A i, j \in 1..Len(manifest.Projects) :
              i # j => manifest.Projects[i].Path # manifest.Projects[j].Path
        /\ \A i, j \in 1..Len(manifest.Templates) :
              i # j => <<manifest.Templates[i].Name, manifest.Templates[i].Path>>
                           # <<manifest.Templates[j].Name, manifest.Templates[j].Path>>

\* C19 witness: three calls have left two projects and three templates, the
\* last call bringing a project whose path the manifest already held under
\* another name.
C19_Witness ==
    /\ lastCall.op = "updateManifest"
    /\ steps = 3
    /\ Len(manifest.Projects) = 2
    /\ Len(manifest.Templates) = 3
    /\ lastCall.changes.Projects[1].Path = manifest.Projects[1].Path
    /\ lastCall.changes.Projects[1].Name # manifest.Projects[1].Name

\* ------------------------------------------------------------------ claims on the scaffold

\* C20: when Commit or Rollback ends a transaction that had made its temp
\* directory, that directory and its backups are gone; .scbake/tmp is removed
\* if and only if no other run's directory is in it; .scbake is removed if and
\* only if tmp was removed and .scbake holds nothing else; what other runs left
\* stays; and Commit changes no path under the root.
C20_ScaffoldCleanup ==
    [][(/\ txState = "open"
        /\ tempDir # ""
        /\ lastCall'.op \in {"Commit", "Rollback"}
        /\ txState' # "open")
       => /\ ~scaffold'.own
          /\ tmpFiles' = EmptyMap
          /\ tempDir' = ""
          /\ scaffold'.tmp <=> scaffold.other
          /\ (scaffold'.scbake = "none") <=> (~scaffold.other /\ ~scaffold.extra)
          /\ scaffold'.scbake \in {"none", "dir"}
          /\ scaffold'.other = scaffold.other
          /\ scaffold'.extra = scaffold.extra
          /\ (lastCall'.op = "Commit" => fs' = fs)]_vars

\* C20 witness: Commit has ended a transaction that held a backup beside
\* another run's directory; tmp and .scbake stand, this run's directory is gone
\* and the file written after its Track keeps its new content.
C20_Witness ==
    /\ txState = "committed"
    /\ lastCall.op = "Commit"
    /\ pF \in DOMAIN firstSeen
    /\ fs[pF].content = "v2"
    /\ scaffold = OtherRunScaffold

\* ------------------------------------------------------------------ claims on root discovery

\* C21: FindProjectRoot returns, among the start directory (the parent of a
\* start that is a file) and its ancestors, the deepest one that holds
\* scbake.toml or .git, and the start directory itself when none of them does.
C21_RootDiscovery ==
    lastCall.op = "FindProjectRoot" =>
        LET abs == CleanFrom(lastCall.path, <<>>, TRUE)
            startDir == IF abs \in DOMAIN fs /\ fs[abs].kind = "file"
                        THEN SubSeq(abs, 1, Len(abs) - 1) ELSE abs
            marked == {k \in 0..Len(startDir) :
                          \E mk \in {ManifestFileName, GitDir} :
                              LET q == Append(SubSeq(startDir, 1, k), mk)
                              IN q \in DOMAIN fs /\ fs[q].kind # "none"}
        IN IF marked = {} THEN lastCall.found = startDir
           ELSE \E k \in marked :
                   /\ \A j \in marked : j <= k
                   /\ lastCall.found = SubSeq(startDir, 1, k)

\* C21 witness: called on the file /t/r/a/f with a manifest in /t/r/a and
\* another in /t, and .git in /t/r, it has returned /t/r/a.
C21_Witness ==
    /\ lastCall.op = "FindProjectRoot"
    /\ lastCall.path = <<cT, cR, cA, cF>>
    /\ lastCall.found = pA
    /\ fs[Join(pA, <<ManifestFileName>>)].kind = "file"
    /\ fs[Join(pT, <<ManifestFileName>>)].kind = "file"
    /\ fs[Join(rootPath, <<GitDir>>)].kind = "dir"

\* ------------------------------------------------------------------ claims on RunApply

\* C22: when nothing is requested, or a requested language or template is not
\* registered, or the language's binary is not on $PATH, or a requested
\* handler's GetTasks fails, no task is ever started, and RunApply returns an
\* error with the filesystem under the root, the scaffold and the manifest as
\* they were.
C22_PlanAllOrNothing ==
    LET requested == {rc.WithFlag[i] : i \in 1..Len(rc.WithFlag)}
        bad == \/ (rc.LangFlag = "" /\ requested = {})
               \/ rc.LangFlag \notin {"", "go", "svelte", "spring"}
               \/ requested \ {"makefile", "ci_github", "editorconfig", "go_linter", "maven_linter",
                              "svelte_linter", "devcontainer"} # {}
               \/ (rc.LangFlag = "go" /\ "go" \notin rc.Env.path)
               \/ (rc.Env.failing \cap (requested \cup {rc.LangFlag})) # {}
    IN (bad /\ pc # "idle") =>
          /\ started = <<>>
          /\ fs = fs0
          /\ scaffold = NoScaffold
          /\ pc \notin {"exec", "finalize", "save"}
          /\ pc = "returned" => (runErr.err /\ manifest = Load(fs0))

\* C22 witness: a run for --lang go --with ci,does-not-exist, whose handlers
\* would have returned two tasks, has returned its error over a root that holds
\* a manifest.
C22_Witness ==
    /\ pc = "returned"
    /\ rc.LangFlag = "go"
    /\ rc.WithFlag = <<"ci_github", "does-not-exist">>
    /\ rc.Env = GoodEnv
    /\ ~rc.DryRun
    /\ Len(planIn) = 2
    /\ runErr.err
    /\ fs0[pM].kind = "file"
    /\ txLog # <<>>


\* ------------------------------------------------------------------ claims on finalization

\* Whether every task of the plan was executed and returned nil.
AllTasksSucceeded ==
    /\ Len(started) = Len(plan)
    /\ \A i \in 1..Len(started) : started[i].executed /\ ~started[i].err

\* Whether the journal of the run's manager holds the manifest path.
ManifestTracked == alreadyTracked(Mgr, pM)

CanOpenForWrite(f, p, su) ==
    /\ ParentIsDir(f, p)
    /\ f[p].kind # "dir"
    /\ f[p].kind = "file" => su \/ Writable(f[p].mode)

PredictedStarted ==
    UNION {{Join(rootPath, plan[i].predicted[k]) : k \in 1..Len(plan[i].predicted)} :
              i \in {j \in 1..Len(started) :
                        started[j].executed /\ plan[j].kind = "ExecCommandTask"}}

C26_OverflowAtBandSize ==
    (procs[1].pc = "done" /\ seq.max # 0 /\ procs[1].calls = seq.max - seq.base + 1)
        => procs[1].ret.err

\* C26, amended: on a sequence with a ceiling, call number ceiling - base + 1 of
\* Next returns the ceiling without error, and call number ceiling - base + 2
\* returns 0 and an error, current standing one beyond the ceiling.
C26_OverflowBeyondCeiling ==
    (procs[1].pc = "done" /\ seq.max # 0) =>
        /\ procs[1].calls = seq.max - seq.base + 1 =>
              procs[1].ret = [p |-> seq.max, err |-> FALSE]
        /\ procs[1].calls = seq.max - seq.base + 2 =>
              /\ procs[1].ret = [p |-> 0, err |-> TRUE]
              /\ seq.current = seq.max + 1

\* C26 witness: on the sequence (3, 3) the first call has returned 3 and the
\* second an error.
C26_Witness ==
    /\ seq.base = 3
    /\ seq.max = 3
    /\ procs[1].pc = "done"
    /\ procs[1].calls = 2
    /\ procs[1].ret.err

\* ------------------------------------------------------------------ claims on the journal's end

\* C27: after Commit has returned nil the journal is empty: no backup, no created
\* path and no temp directory, whether or not a temp directory was ever made.
C27_CommitEmptiesJournal ==
    (lastCall.op = "Commit" /\ ~lastCall.err) =>
        /\ backups = EmptyMap
        /\ created = <<>>
        /\ tempDir = ""

\* C28: whenever Rollback has returned the journal is empty, with or without a
\* temp directory having existed, and a second Rollback on the same Manager
\* leaves the filesystem as it finds it, whatever was made again in between.
C28_RollbackIdempotent ==
    [][(lastCall'.op = "Rollback" /\ txState' # txState) =>
          /\ backups' = EmptyMap
          /\ created' = <<>>
          /\ txState = "rolledback" => fs' = fs]_vars

\* ------------------------------------------------------------------ claims on a Rollback that meets failures

\* The elements of a sequence.
Range(s) == {s[i] : i \in 1..Len(s)}

\* Whether os.RemoveAll of the created path c must fail for this process:
\* c or something beneath it lies in a directory the process may not write.
Undeletable(c) ==
    /\ ~priv
    /\ \E r \in DOMAIN fs :
          (r = c \/ Below(r, c)) /\ Exists(fs, r) /\ NodeAt(fs, Dir(r)) = SealedDirNode

\* Whether copyFile onto the backed-up path q must fail for this process: what
\* stands at q is a file it may not open for reading and writing.
Unrestorable(q) ==
    /\ ~priv
    /\ fs[q].kind = "file"
    /\ ~(Readable(fs[q].mode) /\ Writable(fs[q].mode))

C30_ReporterProtocol ==
    /\ \A j \in 1..Len(events) :
          events[j].call = (IF j % 2 = 1 THEN "TaskStart" ELSE "TaskEnd")
    /\ Len(events) % 2 = 0
    /\ Len(events) <= 2 * Len(plan)
    /\ \A k \in 1..(Len(events) \div 2) :
          /\ events[2 * k - 1] = TaskStart(plan[k].id, k, Len(plan))
          /\ events[2 * k] = TaskEnd(started[k].err)
          /\ events[2 * k].err => 2 * k = Len(events)
    /\ (pc \in {"finalize", "save", "returning", "returned"} /\ runErr.task = 0) =>
          Len(events) = 2 * Len(plan)
    /\ rc.DryRun =>
          /\ \A k \in 1..Len(started) : ~started[k].executed /\ ~events[2 * k].err
          /\ fs = fs0

\* C30 witness: a dry run of a plan of two tasks has returned; the Reporter got
\* TaskStart 1 of 2, TaskEnd, TaskStart 2 of 2, TaskEnd, and nothing was executed.
C30_Witness ==
    /\ pc = "returned"
    /\ rc.DryRun
    /\ Len(plan) = 2
    /\ events = <<TaskStart(plan[1].id, 1, 2), TaskEnd(FALSE),
                  TaskStart(plan[2].id, 2, 2), TaskEnd(FALSE)>>
    /\ ~started[1].executed /\ ~started[2].executed

\* ------------------------------------------------------------------ claims on the directory task

\* C31: CreateDirTask.Execute called with DryRun true neither tracks the path nor
\* creates any directory (the journal and the filesystem are as before the call);
\* called with DryRun false on a path that is already a directory it succeeds and
\* changes nothing on disk.
C31_CreateDirDryRunNoOp ==
    lastCall.op = "CreateDir" =>
        /\ lastCall.dry =>
              /\ created = lastCall.before.created
              /\ backups = lastCall.before.backups
              /\ fs = lastCall.before.fs
        /\ (~lastCall.dry /\ NodeAt(lastCall.before.fs, lastCall.path).kind = "dir") =>
              /\ ~lastCall.err
              /\ fs = lastCall.before.fs

\* ------------------------------------------------------------------ claims on concurrent callers

\* Caller i is between its Lock and its Unlock.
InCall(i) == procs[i].pc \notin {"start", "done"}

\* The method of a call, run as one step on the Manager st.
WholeCall(c, st, su) ==
    IF c.op = "Track" THEN Track(st, c.path, su)
    ELSE IF c.op = "Commit" THEN Commit(st)
    ELSE [err |-> Rollback(st, su).err, st |-> Rollback(st, su).st]

\* C32: Track, Commit and Rollback hold the Manager's mutex for their whole
\* duration: at most one caller is inside a method, and it holds the mutex; what
\* a method has done when it reaches its Unlock is what the whole method does to
\* the Manager it found at its Lock, so no caller sees or leaves a journal from
\* the middle of another's call; no path is journalled twice (two concurrent
\* Tracks of one path leave one entry); and two backed-up files never share a
\* backup path.
C32_TransactionMutualExclusion ==
    /\ \A i \in DOMAIN procs : InCall(i) => mu = i
    /\ \A i \in DOMAIN procs :
          procs[i].pc = "unlock" =>
              /\ Mgr = WholeCall(procs[i], procs[i].snap, priv).st
              /\ procs[i].ret = WholeCall(procs[i], procs[i].snap, priv).err
    /\ \A j, k \in 1..Len(created) : created[j] = created[k] => j = k
    /\ \A j \in 1..Len(created) : created[j] \notin DOMAIN backups
    /\ \A p, q \in DOMAIN backups : backups[p].tempPath = backups[q].tempPath => p = q

\* Two callers have tracked the same absent path, one entry in created; or two
\* callers have backed up two files of the same basename.
C32_Witness ==
    /\ \A i \in DOMAIN procs : procs[i].pc = "done" /\ procs[i].op = "Track" /\ ~procs[i].ret
    /\ \/ procs[1].path = pA /\ procs[2].path = pA /\ created = <<pA>>
       \/ {pF, pABF} \subseteq DOMAIN backups

\* ------------------------------------------------------------------ claims on the merge rule

\* C33: every call of updateManifest appends the pending project if and only if
\* no project of the manifest has its path, and the pending template if and only
\* if no template of the manifest has its (name, path) pair; the entries the
\* manifest held stay, in their order and unchanged, in front of what is appended.
C33_MergeRule ==
    [][lastCall'.op = "updateManifest" =>
        LET proj == lastCall'.changes.Projects[1]
            tmpl == lastCall'.changes.Templates[1]
        IN /\ manifest'.Projects =
                 IF \E i \in 1..Len(manifest.Projects) : manifest.Projects[i].Path = proj.Path
                 THEN manifest.Projects ELSE Append(manifest.Projects, proj)
           /\ manifest'.Templates =
                 IF \E i \in 1..Len(manifest.Templates) :
                        /\ manifest.Templates[i].Name = tmpl.Name
                        /\ manifest.Templates[i].Path = tmpl.Path
                 THEN manifest.Templates ELSE Append(manifest.Templates, tmpl)]_vars

\* ------------------------------------------------------------------ claims on the lazy scaffold

\* The call that has just returned was a Track (alone or as a task's first
\* step) of a path inside the root that the journal did not hold and where a
\* regular file stood.
TrackedRegularFile ==
    /\ lastCall'.op \in {"Track"} \cup {op.kind : op \in BodyOps}
    /\ ~resolveAndValidate(lastCall'.path).err
    /\ ~alreadyTracked(Mgr, Abs(lastCall'.path))
    /\ NodeAt(fs, Abs(lastCall'.path)).kind = "file"

\* C34: while the Manager has no temp directory, the only step that makes one,
\* or changes anything under <root>/.scbake, is the Track of a pre-existing
\* regular file that is not in the journal yet; so a transaction whose tracked
\* paths were all absent or directories leaves <root>/.scbake as it found it,
\* through Track, Commit and Rollback.
C34_LazyScaffold ==
    [][(tempDir = "" /\ (tempDir' # "" \/ scaffold' # scaffold)) => TrackedRegularFile]_vars

\* C34 witness: a transaction that tracked an absent path and an existing
\* directory, and no file, was ended by Commit or Rollback; nothing stands
\* under <root>/.scbake.
C34_Witness ==
    /\ lastCall.op \in {"Commit", "Rollback"}
    /\ \E p \in DOMAIN firstSeen : firstSeen[p].kind = "none"
    /\ \E p \in DOMAIN firstSeen : firstSeen[p].kind = "dir"
    /\ \A p \in DOMAIN firstSeen : firstSeen[p].kind # "file"
    /\ scaffold = NoScaffold
    /\ tmpFiles = EmptyMap

\* ------------------------------------------------------------------ claims on the rollback phases

\* C35: in every journal no backed-up path lies beneath a path recorded in
\* created, so that phase 1 of Rollback removes the directory of no file that
\* phase 2 restores; and the Rollback of a process that no permission stops
\* returns nil.
C35_PhasesDoNotInterfere ==
    /\ \A q \in DOMAIN backups : \A j \in 1..Len(created) : ~Below(q, created[j])
    /\ (lastCall.op = "Rollback" /\ txState = "rolledback" /\ priv) => ~lastCall.err

\* ------------------------------------------------------------------ claims on what Track accepts

\* C36: Track returns no confinement error for a path that is the root or lies
\* below it, an entry whose name begins with two dots (and is not "..")
\* included.
C36_TrackAcceptsInside ==
    (lastCall.op = "Track" /\ InsideRoot(Abs(lastCall.path)))
        => ~resolveAndValidate(lastCall.path).err

\* ------------------------------------------------------------------ claims on a failing Track

\* C37: whenever Track returns an error (the path is outside the root, os.Stat
\* fails, the temp directory cannot be made, the backup copy fails), backups
\* and created are what they were before the call.
C37_TrackAtomicOnError ==
    [][(lastCall'.op = "Track" /\ lastCall'.err)
        => (backups' = backups /\ created' = created)]_vars

\* C37 witness: the journal holds a backup and a created path, and Track of the
\* file f, which the process may not read, has made the temp directory's copy
\* fail.
C37_Witness ==
    /\ lastCall = [op |-> "Track", path |-> pF, err |-> TRUE]
    /\ ~priv
    /\ fs[pF].mode = "0200"
    /\ tempDir # ""
    /\ DOMAIN backups = {pABF}
    /\ created # <<>>

\* ------------------------------------------------------------------ claims on the manifest view

\* C38: when executeAndFinalize has returned nil, the manifest view the run's
\* tasks were given (built from the manifest the run loaded and the pending
\* changes) has the projects and templates of the manifest it persisted, also
\* when the loaded manifest already held the requested entries; and what was
\* merged and saved is the manifest as it was loaded.
C38_FutureManifestConsistency ==
    (pc \in {"returning", "returned"} /\ ~runErr.err /\ ~rc.DryRun) =>
        LET loaded == Load(fs0)
            changes == buildPlan(rc, planIn).changes
            view == futureManifest(loaded, changes)
        IN /\ view.Projects = Load(fsDone).Projects
           /\ view.Templates = Load(fsDone).Templates
           /\ manifest = updateManifest(loaded, changes)
           /\ Load(fsDone) = manifest

====
